---- MODULE Spec2Model ----
(***************************************************************************)
(* The dashboard script of pvpbot-stats: the live-stats poll (loadStats)   *)
(* with its availability state machine and banner, the incremental history *)
(* poll (loadHistory) with its cursor, the value animation, the windowed   *)
(* and decimated chart data with its cache, and the page initialisation.   *)
(* JavaScript runs one callback at a time: every action below is one       *)
(* synchronous stretch of code between two awaits (or one timer callback). *)
(***************************************************************************)
EXTENDS Integers, Sequences, FiniteSets, TLC

(***************************************************************************)
(* Bounds of the model                                                     *)
(***************************************************************************)
\* loadStats calls that may be in flight at once
MaxStatsPolls == 2
\* loadHistory calls that may be in flight at once
MaxHistPolls == 2
\* the model stops counting consecutiveFailures here (the code reads it only through >= 2)
MaxFailures == 3
\* history timestamps of a response are 1..MaxTs (seconds)
MaxTs == 2
\* longest timestamps array of a history response
MaxRespLen == 2
\* pollLog keeps the results of the first LogLen loadStats calls
LogLen == 3
\* the value of Date.now() when the page is loaded: 3602 s, in units of 1/8 s
Now0 == 28816
\* points of a sampled history response
MaxPoints == 26
\* clicks on the period buttons of a page that shows a sampled history
MaxClicks == 1
\* clicks on the period buttons of a page whose cache is watched
MaxCacheClicks == 2
\* half seconds the clock advances while the charts are shown
MaxTicks == 2
\* the eighths of a second the clock is followed for after each timer period
MaxEighths == 4
\* calls of debouncedUpdateCharts on a page whose debounce is watched
MaxCalls == 3
\* the largest of the small counts animateValue is called with
MaxAnimValue == 3
\* the largest timestamp of a snapshot
MaxSnapshotTs == 1
\* the retention of a per-node stream, in points
R_node == 1
\* the retention of the global stream, in points
R_global == 1
\* the documents the backend produces while its lifetime counters grow
MaxCount == 2

(***************************************************************************)
(* Program constants                                                       *)
(***************************************************************************)
\* animateValue: const duration = 500
duration == 500
\* animateValue: the interval of the animation timer, setInterval(..., 16)
frameMs == 16
\* loadStats: consecutiveFailures >= 2
FailureThreshold == 2
\* Date.now() and every timestamp are counted in eighths of a second, so that
\* the window of a year fits the integers of the model checker: the 1000 ms
\* of the source are OneSecond units
OneSecond == 8
\* filterDataByPeriod: (now - lastFilterTime) < 1000
CacheValidMs == OneSecond

\* a JSON field that is absent (undefined)
Undefined == -1

StatsPolls == 1..MaxStatsPolls
HistPolls == 1..MaxHistPolls
Seconds == 1..MaxTs

Periods == {"10m", "30m", "1h", "1d", "1w", "1m", "1y"}
Elements == {"servers-online", "bots-active", "bots-spawned", "bots-killed"}

VARIABLES
    \* ---- page ----
    phase,                \* "loaded" | "initHistory" | "running"
    now,                  \* Date.now()
    \* ---- history ----
    historyData,          \* the five parallel arrays
    lastLoadedTimestamp,  \* the cursor
    pcH,                  \* position of each loadHistory call
    kindH,                \* who awaits it: "initial" | "timer"
    oldLength,            \* the timer callback's oldLength
    requestH,             \* the request each loadHistory call has sent
    \* ---- live stats ----
    apiAvailable,
    consecutiveFailures,
    bannerHidden,         \* the banner's class list holds 'hidden'
    currentValues,
    textContent,          \* text of the four counter elements
    lastUpdateText,       \* text of the 'last-update' element
    animTimers,           \* running animateValue intervals
    animateCall,          \* the call of animateValue made on its own last (AnimateCalled)
    timerQueue,           \* the running timers of AnimateCalled and StatsApplied, in the order they were set
    pcS,                  \* position of each loadStats call
    kindS,                \* who called it: "initial" (the page handler) | "timer"
    bodyS,                \* body of the response a loadStats call holds
    uncaught,             \* some loadStats promise was rejected
    pollLog,              \* the results of the loadStats calls so far, kept while they run one at a time
    documents,            \* the bodies the backend and the fallback source may answer with
    omitted,              \* the value arrays the history backend leaves out
    store,                \* the backend: Snapshot Store, lifetime counters, History Store
    backendHealthy,       \* the backend answers every request with an OK status and a readable document
    \* ---- charts ----
    currentPeriod,
    serversChart,
    botsChart,
    filteredDataCache,
    lastFilterTime,
    clicks,               \* period buttons clicked so far
    updateTimeout,        \* a handle was stored by debouncedUpdateCharts
    recomputePending,     \* recompute timeouts set and neither fired nor cleared
    frameRequests,        \* requestAnimationFrame callbacks of fired timeouts not yet run
    debounceLog,          \* the debouncedUpdateCharts calls and the recompute passes, with their times
    historyDue            \* the time the history setInterval fires next, 0 before it is set

pageVars == <<phase, now, documents, omitted, store>>
histVars == <<historyData, lastLoadedTimestamp, pcH, kindH, oldLength, requestH, historyDue>>
availVars == <<apiAvailable, consecutiveFailures, bannerHidden>>
valueVars == <<currentValues, textContent, lastUpdateText, animTimers, animateCall, timerQueue>>
statsVars == <<availVars, valueVars, pcS, kindS, bodyS, uncaught, pollLog, backendHealthy>>
chartVars == <<currentPeriod, serversChart, botsChart, filteredDataCache, lastFilterTime, clicks>>
debounceVars == <<updateTimeout, recomputePending, frameRequests, debounceLog>>
vars == <<pageVars, histVars, statsVars, chartVars, debounceVars>>

(***************************************************************************)
(* Small helpers                                                           *)
(***************************************************************************)
\* x || 0 : undefined, null and 0 give 0
OrZero(x) == IF x = Undefined THEN 0 ELSE x

\* arr[i] || 0 for a 1-based index of the model
AtOrZero(arr, i) == IF i <= Len(arr) THEN OrZero(arr[i]) ELSE 0

Last(s) == s[Len(s)]

RECURSIVE SeqsUpTo(_, _)
SeqsUpTo(S, n) ==
    IF n = 0 THEN {<<>>}
    ELSE LET shorter == SeqsUpTo(S, n - 1)
         IN  shorter \cup {Append(s, x) : s \in {t \in shorter : Len(t) = n - 1}, x \in S}

(***************************************************************************)
(* History responses                                                       *)
(***************************************************************************)
\* the value the backend reports for a field at a timestamp
PointValue(f, ts) ==
    ts + (CASE f = "servers" -> 0 [] f = "bots" -> 1
                   [] f = "spawned" -> 2 [] OTHER -> 3)

ValueArray(f, tss, omit) ==
    IF f \in omit THEN <<>> ELSE [i \in 1..Len(tss) |-> PointValue(f, tss[i])]

\* the field sets a response may leave out
OmitSets == {{}, {"bots"}}

ObjectBody(tss, omit) ==
    [kind       |-> "object",
     omit       |-> omit,
     timestamps |-> IF "timestamps" \in omit THEN <<>> ELSE tss,
     servers    |-> ValueArray("servers", tss, omit),
     bots       |-> ValueArray("bots", tss, omit),
     spawned    |-> ValueArray("spawned", tss, omit),
     killed     |-> ValueArray("killed", tss, omit)]

\* a body response.json() rejects
GarbageBody ==
    [kind |-> "garbage", omit |-> {}, timestamps |-> <<>>, servers |-> <<>>,
     bots |-> <<>>, spawned |-> <<>>, killed |-> <<>>]

HistoryBodies ==
    {GarbageBody} \cup
    {ObjectBody(tss, omit) :
        tss \in SeqsUpTo(Seconds, MaxRespLen), omit \in OmitSets}

\* the bodies a backend that leaves out the arrays omit may answer with
ServedBodies(omit) == {b \in HistoryBodies : b.kind = "garbage" \/ b.omit = omit}

\* timestamps never decrease along the list
Chronological(tss) == \A i \in 1..(Len(tss) - 1) : tss[i] <= tss[i + 1]

StrictlyAscending(tss) == \A i \in 1..(Len(tss) - 1) : tss[i] < tss[i + 1]

\* the request fetch(HISTORY_URL) sends when the cursor is cursor: the URL is
\* a constant and carries no query
HistoryRequest(cursor) == [url |-> "HISTORY_URL", since |-> Undefined]

\* no request is out
NoRequest == [url |-> "", since |-> Undefined]

(***************************************************************************)
(* loadHistory: the merge of a parsed body                                 *)
(***************************************************************************)
\* data.timestamps.map(ts => ts * 1000)
ToMillis(tss) == [i \in 1..Len(tss) |-> tss[i] * OneSecond]

\* data && data.timestamps && data.timestamps.length > 0
HasData(data) == data.kind = "object" /\ Len(data.timestamps) > 0

\* const newData = {...}
NewData(data) ==
    [timestamps |-> ToMillis(data.timestamps),
     servers    |-> data.servers,
     bots       |-> data.bots,
     spawned    |-> data.spawned,
     killed     |-> data.killed]

\* a slip of the test: a point at the cursor counts as new
IsNewPointInclusive(ts, cursor) == ts >= cursor

\* the test of the incremental loop
IsNewPoint(ts, cursor) == ts > cursor

\* the for loop of the incremental update, from index i on
RECURSIVE AppendNewPoints(_, _, _, _)
AppendNewPoints(hd, newData, cursor, i) ==
    IF i > Len(newData.timestamps) THEN hd
    ELSE IF IsNewPoint(newData.timestamps[i], cursor)
         THEN AppendNewPoints(
                [timestamps |-> Append(hd.timestamps, newData.timestamps[i]),
                 servers    |-> Append(hd.servers, AtOrZero(newData.servers, i)),
                 bots       |-> Append(hd.bots, AtOrZero(newData.bots, i)),
                 spawned    |-> Append(hd.spawned, AtOrZero(newData.spawned, i)),
                 killed     |-> Append(hd.killed, AtOrZero(newData.killed, i))],
                newData, cursor, i + 1)
         ELSE AppendNewPoints(hd, newData, cursor, i + 1)

\* historyData after loadHistory has parsed the body data
MergedHistory(hd, cursor, data) ==
    IF ~HasData(data) THEN hd
    ELSE IF Len(hd.timestamps) = 0 THEN NewData(data)
    ELSE AppendNewPoints(hd, NewData(data), cursor, 1)

\* a slip of the cursor: the incremental branch forgets to advance it
MergedCursorStale(hd, cursor, data) ==
    IF HasData(data) /\ Len(hd.timestamps) = 0 THEN Last(ToMillis(data.timestamps))
    ELSE cursor

\* a slip of the cursor: the incremental branch takes the last point of the
\* response instead of the last point of the series
MergedCursorLastReceived(hd, cursor, data) ==
    IF ~HasData(data) THEN cursor
    ELSE IF Len(hd.timestamps) = 0 THEN Last(NewData(data).timestamps)
    ELSE LET merged == AppendNewPoints(hd, NewData(data), cursor, 1)
         IN  IF Len(merged.timestamps) > Len(hd.timestamps)
             THEN Last(NewData(data).timestamps)
             ELSE cursor

\* lastLoadedTimestamp after loadHistory has parsed the body data
MergedCursor(hd, cursor, data) ==
    IF ~HasData(data) THEN cursor
    ELSE IF Len(hd.timestamps) = 0 THEN Last(NewData(data).timestamps)
    ELSE LET merged == AppendNewPoints(hd, NewData(data), cursor, 1)
         IN  IF Len(merged.timestamps) > Len(hd.timestamps)
             THEN Last(merged.timestamps)
             ELSE cursor

(***************************************************************************)
(* filterDataByPeriod: window, stride, labels and the cache                *)
(***************************************************************************)
\* the switch with the 1w window as long as the 1m window
WindowMsWeekAsMonth(period) ==
    CASE period = "10m" -> 10 * 60 * OneSecond
      [] period = "30m" -> 30 * 60 * OneSecond
      [] period = "1h"  -> 60 * 60 * OneSecond
      [] period = "1d"  -> 24 * 60 * 60 * OneSecond
      [] period = "1w"  -> 30 * 24 * 60 * 60 * OneSecond
      [] period = "1m"  -> 30 * 24 * 60 * 60 * OneSecond
      [] period = "1y"  -> 365 * 24 * 60 * 60 * OneSecond
      [] OTHER          -> 60 * 60 * OneSecond

\* the window length of the switch (the default branch is the 1h window)
WindowMs(period) ==
    CASE period = "10m" -> 10 * 60 * OneSecond
      [] period = "30m" -> 30 * 60 * OneSecond
      [] period = "1h"  -> 60 * 60 * OneSecond
      [] period = "1d"  -> 24 * 60 * 60 * OneSecond
      [] period = "1w"  -> 7 * 24 * 60 * 60 * OneSecond
      [] period = "1m"  -> 30 * 24 * 60 * 60 * OneSecond
      [] period = "1y"  -> 365 * 24 * 60 * 60 * OneSecond
      [] OTHER          -> 60 * 60 * OneSecond

\* the table that thins the 1h window like the 1d window
decimationFactorHourThinned(period) ==
    CASE period = "1h" -> 6
      [] period = "1d" -> 6
      [] period = "1w" -> 24
      [] period = "1m" -> 120
      [] period = "1y" -> 720
      [] OTHER         -> 1

\* the table with a finer stride for the 1y window than for the 1m window
decimationFactorYearFiner(period) ==
    CASE period = "1d" -> 6
      [] period = "1w" -> 24
      [] period = "1m" -> 120
      [] period = "1y" -> 60
      [] OTHER         -> 1

decimationFactor(period) ==
    CASE period = "1d" -> 6
      [] period = "1w" -> 24
      [] period = "1m" -> 120
      [] period = "1y" -> 720
      [] OTHER         -> 1

\* the label of a point: hour and minute for the windows up to 1d, day and
\* hour for 1w, the day for the longer ones (the time zone is taken as UTC)
Label(period, ts) ==
    IF period \in {"10m", "30m", "1h", "1d"} THEN (ts \div (60 * OneSecond)) % 1440
    ELSE IF period = "1w" THEN ts \div (3600 * OneSecond)
    ELSE ts \div (86400 * OneSecond)

EmptyFiltered == [timestamps |-> <<>>, servers |-> <<>>, bots |-> <<>>, labels |-> <<>>]

\* one iteration of the for loop of filterDataByPeriod, at index i; the loop
\* state st is [pointCounter, filtered]
FilterStep(hd, period, cutoff, st, i) ==
    IF hd.timestamps[i] >= cutoff
    THEN [pointCounter |-> st.pointCounter + 1,
          filtered |->
              IF st.pointCounter % decimationFactor(period) = 0
              THEN [timestamps |-> Append(st.filtered.timestamps, hd.timestamps[i]),
                    servers    |-> Append(st.filtered.servers, AtOrZero(hd.servers, i)),
                    bots       |-> Append(st.filtered.bots, AtOrZero(hd.bots, i)),
                    labels     |-> Append(st.filtered.labels, Label(period, hd.timestamps[i]))]
              ELSE st.filtered]
    ELSE st

\* the iterations first..last of the for loop, in their order, from the loop
\* state st: the first half of them, then the second half from the state the
\* first half has left (its counter is read before the second half starts)
RECURSIVE FilterLoop(_, _, _, _, _, _)
FilterLoop(hd, period, cutoff, st, first, last) ==
    IF first > last THEN st
    ELSE IF first = last THEN FilterStep(hd, period, cutoff, st, first)
    ELSE LET mid  == (first + last) \div 2
             left == FilterLoop(hd, period, cutoff, st, first, mid)
         IN  IF left.pointCounter >= 0
             THEN FilterLoop(hd, period, cutoff, left, mid + 1, last)
             ELSE left

\* the loop that starts its counter from the clock
ComputeFilteredCounterFromClock(hd, period, t) ==
    FilterLoop(hd, period, t - WindowMs(period),
               [pointCounter |-> t \div (OneSecond \div 2), filtered |-> EmptyFiltered],
               1, Len(hd.timestamps)).filtered

\* the loop that starts its counter at one
ComputeFilteredCounterFromOne(hd, period, t) ==
    FilterLoop(hd, period, t - WindowMs(period),
               [pointCounter |-> 1, filtered |-> EmptyFiltered],
               1, Len(hd.timestamps)).filtered

\* the point set filterDataByPeriod computes when it does not use the cache
ComputeFiltered(hd, period, t) ==
    FilterLoop(hd, period, t - WindowMs(period),
               [pointCounter |-> 0, filtered |-> EmptyFiltered],
               1, Len(hd.timestamps)).filtered

\* the cache is read: filteredDataCache[period] && (now - lastFilterTime) < 1000
CacheHit(cache, lastTime, period, t) ==
    cache[period].present /\ (t - lastTime) < CacheValidMs

\* a filter state fs is the pair [cache, lastFilterTime]; next to its value a
\* cache entry records the time at which the value was computed
\* filterDataByPeriod(period) at time t: what it returns, and the cache and
\* lastFilterTime it leaves; an empty series returns before the cache is written
filterDataByPeriod(fs, hd, period, t) ==
    LET fresh == ComputeFiltered(hd, period, t)
    IN  IF CacheHit(fs.cache, fs.lastFilterTime, period, t)
        THEN [result |-> fs.cache[period].value, state |-> fs]
        ELSE IF Len(hd.timestamps) = 0
        THEN [result |-> EmptyFiltered, state |-> fs]
        ELSE [result |-> fresh,
              state  |-> [cache |-> [fs.cache EXCEPT ![period] =
                                        [present |-> TRUE, value |-> fresh, at |-> t]],
                          lastFilterTime |-> t]]

\* what filterDataByPeriod(period) returns
FilterResult(fs, hd, period, t) == filterDataByPeriod(fs, hd, period, t).result

\* the cache and lastFilterTime after filterDataByPeriod(period)
FilterState(fs, hd, period, t) == filterDataByPeriod(fs, hd, period, t).state

NoChart == [created |-> FALSE, labels |-> <<>>, data |-> <<>>]

(***************************************************************************)
(* animateValue                                                            *)
(***************************************************************************)
\* the running value of a timer is kept in units of 1/AnimScale, so that the
\* increment range / (duration / 16) is the integer range * frameMs * AnimScale / duration
AnimScale == duration \div 4

\* no call of animateValue has been made on its own
NoCall == [el |-> "", startValue |-> Undefined, endValue |-> Undefined]

\* a slip of the increment: the range is spread over 500 ticks, not over 500 ms
IncrementPerTick(startValue, endValue) ==
    ((endValue - startValue) * AnimScale) \div duration

\* the increment of a timer, in units of 1/AnimScale
Increment(startValue, endValue) ==
    ((endValue - startValue) * frameMs * AnimScale) \div duration

\* the interval timers after animateValue(el, startValue, endValue); a timer
\* carries the start value and the number of its ticks so far
AnimateTimers(timers, el, startValue, endValue) ==
    IF startValue = endValue THEN timers
    ELSE timers \cup {[el         |-> el,
                       current    |-> startValue * AnimScale,
                       endValue   |-> endValue,
                       increment  |-> Increment(startValue, endValue),
                       startValue |-> startValue,
                       ticks      |-> 0]}

\* a slip of the early return: the text is left as it was
AnimateTextKept(text, el, startValue, endValue) == text

\* the element's text after animateValue(el, startValue, endValue) returns
AnimateText(text, el, startValue, endValue) ==
    IF startValue = endValue THEN [text EXCEPT ![el] = endValue] ELSE text

\* the test of the interval callback: the running value has reached the end
Reached(increment, current, endValue) ==
    \/ increment > 0 /\ current >= endValue * AnimScale
    \/ increment < 0 /\ current <= endValue * AnimScale

\* a timer after its callback has run once more
Ticked(t) ==
    LET current == t.current + t.increment
    IN  [t EXCEPT !.current = IF Reached(t.increment, current, t.endValue)
                              THEN t.endValue * AnimScale
                              ELSE current,
                  !.ticks = t.ticks + 1]

\* Math.floor of a running value
Floor(current) == current \div AnimScale

\* the call that has set the timer t
TimerKey(t) == [el |-> t.el, startValue |-> t.startValue, endValue |-> t.endValue]

\* the running timers in the order they were set, after
\* animateValue(el, startValue, endValue)
QueueAfterCall(queue, el, startValue, endValue) ==
    IF startValue = endValue THEN queue
    ELSE Append(queue, [el |-> el, startValue |-> startValue, endValue |-> endValue])

\* a timer queue that runs the callbacks of due timers in any order
TickDueAnyOrder(t, queue, timers) == TRUE

\* setInterval(..., 16): all timers have the same period, and the event loop
\* runs timers of the same delay in the order they were set, so the callback
\* of t runs for the k-th time only after the k-th run of every running
\* timer set before t
TickDue(t, queue, timers) ==
    \A i, j \in 1..Len(queue) :
        (i < j /\ queue[j] = TimerKey(t)) =>
            \A u \in timers : TimerKey(u) = queue[i] => u.ticks > t.ticks

(***************************************************************************)
(* loadStats: the availability state machine and the values                *)
(***************************************************************************)
\* a slip of showApiBanner: the class list is left alone
showApiBannerNoop(hidden) == hidden

showApiBanner(hidden) == FALSE

hideApiBanner(hidden) == TRUE

\* consecutiveFailures++ (the model stops counting at MaxFailures)
CountUp(c) == IF c < MaxFailures THEN c + 1 ELSE c

\* a slip of the threshold test: > 2 where the code has >= 2
CountFailureLate(av) ==
    LET c == CountUp(av.consecutiveFailures)
    IN  IF c > FailureThreshold /\ av.apiAvailable
        THEN [apiAvailable |-> FALSE, consecutiveFailures |-> c,
              bannerHidden |-> showApiBanner(av.bannerHidden)]
        ELSE [av EXCEPT !.consecutiveFailures = c]

\* an availability state av is [apiAvailable, consecutiveFailures, bannerHidden]
\* consecutiveFailures++; if (consecutiveFailures >= 2 && apiAvailable) {...}
CountFailure(av) ==
    LET c == CountUp(av.consecutiveFailures)
    IN  IF c >= FailureThreshold /\ av.apiAvailable
        THEN [apiAvailable |-> FALSE, consecutiveFailures |-> c,
              bannerHidden |-> showApiBanner(av.bannerHidden)]
        ELSE [av EXCEPT !.consecutiveFailures = c]

\* a slip of the recovery: the counter is not reset
BackendAnsweredKeepsCount(av) ==
    IF ~av.apiAvailable
    THEN [apiAvailable |-> TRUE, consecutiveFailures |-> av.consecutiveFailures,
          bannerHidden |-> hideApiBanner(av.bannerHidden)]
    ELSE av

\* a slip of the recovery: the OK answer is not looked at
BackendAnsweredIgnored(av) == av

\* the backend answered with an OK status: if (!apiAvailable) {...}
BackendAnswered(av) ==
    IF ~av.apiAvailable
    THEN [apiAvailable |-> TRUE, consecutiveFailures |-> 0,
          bannerHidden |-> hideApiBanner(av.bannerHidden)]
    ELSE av

\* the log once more than LogLen calls have completed or two calls have overlapped
Forgotten == <<"forgotten">>

\* the log after one more loadStats call has completed with result r:
\* "success" (backend read), "failure" (backend failed, fallback read),
\* "parseFailure" (backend answered, body unreadable), "doubleFailure"
\* (backend failed and the fallback could not be read)
Logged(log, r) ==
    IF log = Forgotten THEN log
    ELSE IF Len(log) < LogLen THEN Append(log, r)
    ELSE Forgotten

\* a stats document
Snapshot(so, ba, sp, ki, lu) ==
    [kind |-> "object", servers_online |-> so, bots_active |-> ba,
     bots_spawned_total |-> sp, bots_killed_total |-> ki, last_update |-> lu]

GarbageStats ==
    [kind |-> "garbage", servers_online |-> Undefined, bots_active |-> Undefined,
     bots_spawned_total |-> Undefined, bots_killed_total |-> Undefined,
     last_update |-> Undefined]

\* the bodies a stats response (backend or fallback) may carry
StatsBodies ==
    {Snapshot(1, 2, 3, 1, 1), Snapshot(2, Undefined, 2, 1, 2), GarbageStats}

NoBody == GarbageStats

\* currentValues after the four assignments
ValuesOf(data) ==
    [servers |-> OrZero(data.servers_online),
     bots    |-> OrZero(data.bots_active),
     spawned |-> OrZero(data.bots_spawned_total),
     killed  |-> OrZero(data.bots_killed_total)]

\* new Date(data.last_update).toLocaleString()
DateText(lu) ==
    IF lu = Undefined THEN [text |-> "Invalid Date", date |-> 0]
    ELSE [text |-> "date", date |-> lu]

FailedText == [text |-> "Failed to load", date |-> 0]

ValueOfElement(vals, el) ==
    CASE el = "servers-online" -> vals.servers
      [] el = "bots-active"    -> vals.bots
      [] el = "bots-spawned"   -> vals.spawned
      [] OTHER                 -> vals.killed

\* the four animateValue calls of loadStats, on the timers
RECURSIVE AnimateAllTimers(_, _, _, _)
AnimateAllTimers(timers, els, old, new) ==
    IF els = {} THEN timers
    ELSE LET el == CHOOSE e \in els : TRUE
         IN  AnimateAllTimers(
                AnimateTimers(timers, el, ValueOfElement(old, el), ValueOfElement(new, el)),
                els \ {el}, old, new)

\* the four animateValue calls of loadStats, on the elements' text
AnimateAllText(text, old, new) ==
    [el \in Elements |->
        AnimateText(text, el, ValueOfElement(old, el), ValueOfElement(new, el))[el]]

(***************************************************************************)
(* debouncedUpdateCharts                                                   *)
(***************************************************************************)
\* the period of the two setInterval timers: 5 s
PollInterval == 5 * OneSecond

\* the delay of the recompute timeout: 250 ms
DebounceMs == OneSecond \div 4

\* a slip of the debounce: the timeout set by the call before is left pending
ClearTimeoutNoop(pending, handle) == pending

\* a pending timeout is [handle, due]: the handle setTimeout has returned and
\* the time the timeout fires
\* clearTimeout(handle) on the set of pending timeouts; handle 0 is null
ClearTimeout(pending, handle) ==
    IF handle # 0 THEN {t \in pending : t.handle # handle} ELSE pending

\* the handle setTimeout returns: one that no pending timeout has
NewHandle(pending) ==
    CHOOSE id \in 1..(Cardinality(pending) + 1) : \A t \in pending : t.handle # id

\* debouncedUpdateCharts() at time t; the debounce state db is
\* [updateTimeout, recomputePending]
Debounced(db, t) ==
    LET cleared == ClearTimeout(db.recomputePending, db.updateTimeout)
        handle  == NewHandle(cleared)
    IN  [updateTimeout |-> handle,
         recomputePending |-> cleared \cup {[handle |-> handle, due |-> t + DebounceMs]}]

(***************************************************************************)
(* The backend: Ingestion Service, Snapshot Store and History Store        *)
(***************************************************************************)
\* the reporting nodes
Nodes == {"A", "B"}

\* the timestamps a snapshot may carry
SnapshotTimes == 0..MaxSnapshotTs

\* the payloads a snapshot may carry: the worker count and the increments of
\* the two lifetime counters
Payloads ==
    {[worker_count |-> 1, spawned |-> 0, terminated |-> 1],
     [worker_count |-> 2, spawned |-> 1, terminated |-> 0]}

\* no snapshot of a node is stored
NoSnapshot == [timestamp |-> Undefined, worker_count |-> 0]

\* the backend before the first ingestion; appended keeps every point ever
\* appended to a node's stream, samples counts the samples of the global
\* cadence, lastResult tells how the last Ingest was answered
InitStore ==
    [snapshots        |-> [n \in Nodes |-> NoSnapshot],
     spawned_total    |-> 0,
     terminated_total |-> 0,
     applied          |-> {},
     nodeStream       |-> [n \in Nodes |-> <<>>],
     appended         |-> [n \in Nodes |-> <<>>],
     globalStream     |-> <<>>,
     samples          |-> 0,
     lastResult       |-> "none"]

\* a slip of the retention: the newest points are trimmed, the oldest kept
TrimmedNewest(stream, retention) ==
    IF Len(stream) > retention THEN SubSeq(stream, 1, retention) ELSE stream

\* the retention prefix trim: the oldest points go first
Trimmed(stream, retention) ==
    IF Len(stream) > retention
    THEN SubSeq(stream, Len(stream) - retention + 1, Len(stream))
    ELSE stream

\* a slip of the ingestion: the idempotency key is never looked up
AlreadyAppliedNever(st, node, timestamp) == FALSE

\* the idempotency key (node_id, timestamp) has been applied
AlreadyApplied(st, node, timestamp) == <<node, timestamp>> \in st.applied

\* the store after Ingest of the snapshot (node, timestamp, payload): a
\* duplicate is a no-op; otherwise the snapshot is upserted last-write-wins by
\* timestamp, the counter increments are applied, and the node's state is
\* sampled into its stream, under the retention trim
Ingested(st, node, timestamp, payload) ==
    IF AlreadyApplied(st, node, timestamp) THEN [st EXCEPT !.lastResult = "StaleDuplicate"]
    ELSE LET snapshot == IF timestamp >= st.snapshots[node].timestamp
                         THEN [timestamp |-> timestamp, worker_count |-> payload.worker_count]
                         ELSE st.snapshots[node]
         IN  [st EXCEPT
                !.snapshots[node] = snapshot,
                !.spawned_total = @ + payload.spawned,
                !.terminated_total = @ + payload.terminated,
                !.applied = @ \cup {<<node, timestamp>>},
                !.nodeStream[node] = Trimmed(Append(@, snapshot), R_node),
                !.appended[node] = Append(@, snapshot),
                !.lastResult = "Ack"]

\* the store after the global cadence has sampled the aggregate counters
SampledGlobal(st) ==
    [st EXCEPT
       !.samples = @ + 1,
       !.globalStream =
           Trimmed(Append(@, [timestamp |-> st.samples,
                              workers_spawned_total |-> st.spawned_total,
                              workers_terminated_total |-> st.terminated_total]),
                   R_global)]

(***************************************************************************)
(* The initial state: the script has been evaluated                        *)
(***************************************************************************)
EmptyHistory ==
    [timestamps |-> <<>>, servers |-> <<>>, bots |-> <<>>, spawned |-> <<>>, killed |-> <<>>]

InitPage ==
    /\ phase = "loaded"
    /\ historyData = EmptyHistory
    /\ lastLoadedTimestamp = 0
    /\ pcH = [h \in HistPolls |-> "idle"]
    /\ kindH = [h \in HistPolls |-> "timer"]
    /\ oldLength = [h \in HistPolls |-> 0]
    /\ requestH = [h \in HistPolls |-> NoRequest]
    /\ apiAvailable = TRUE
    /\ consecutiveFailures = 0
    /\ bannerHidden = TRUE
    /\ currentValues = [servers |-> 0, bots |-> 0, spawned |-> 0, killed |-> 0]
    /\ textContent = [el \in Elements |-> 0]
    /\ lastUpdateText = [text |-> "", date |-> 0]
    /\ animTimers = {}
    /\ animateCall = NoCall
    /\ timerQueue = <<>>
    /\ pcS = [p \in StatsPolls |-> "idle"]
    /\ kindS = [p \in StatsPolls |-> "timer"]
    /\ bodyS = [p \in StatsPolls |-> NoBody]
    /\ uncaught = FALSE
    /\ pollLog = <<>>
    /\ backendHealthy = FALSE
    /\ currentPeriod = [servers |-> "1h", bots |-> "1h"]
    /\ serversChart = NoChart
    /\ botsChart = NoChart
    /\ filteredDataCache =
           [w \in Periods |-> [present |-> FALSE, value |-> EmptyFiltered, at |-> 0]]
    /\ lastFilterTime = 0
    /\ clicks = 0
    /\ store = InitStore
    /\ updateTimeout = 0
    /\ recomputePending = {}
    /\ frameRequests = 0
    /\ debounceLog = <<>>
    /\ historyDue = 0

\* the sources serve any of the stats bodies; the history backend reports all
\* value arrays or leaves some out
Init == InitPage /\ now = Now0 /\ documents = StatsBodies /\ omitted \in OmitSets

\* the same page where the history backend reports all value arrays
InitStats == InitPage /\ now = Now0 /\ documents = StatsBodies /\ omitted = {}

\* the sources serve one stats document or an unreadable body
InitOneDocument ==
    /\ InitPage
    /\ now = Now0
    /\ documents = {Snapshot(2, Undefined, 2, 1, 2), GarbageStats}
    /\ omitted = {}

(***************************************************************************)
(* loadStats                                                               *)
(***************************************************************************)
Avail == [apiAvailable |-> apiAvailable, consecutiveFailures |-> consecutiveFailures,
          bannerHidden |-> bannerHidden]

SetAvail(av) ==
    /\ apiAvailable' = av.apiAvailable
    /\ consecutiveFailures' = av.consecutiveFailures
    /\ bannerHidden' = av.bannerHidden

\* loadStats() runs up to its first await: fetch(BACKEND_URL) is sent
CallLoadStats(p, kind) ==
    /\ pcS' = [pcS EXCEPT ![p] = "fetchBackend"]
    /\ kindS' = [kindS EXCEPT ![p] = kind]

\* setInterval(loadStats, 5 * 1000) fires
StatsTimer(p) ==
    /\ phase = "running"
    /\ pcS[p] = "idle"
    /\ \A q \in StatsPolls : q < p => pcS[q] # "idle"
    /\ CallLoadStats(p, "timer")
    /\ pollLog' = IF \E q \in StatsPolls : pcS[q] # "idle" THEN Forgotten ELSE pollLog
    /\ UNCHANGED <<pageVars, histVars, availVars, valueVars, bodyS, uncaught,
                   backendHealthy, chartVars, debounceVars>>

\* a slip of the catch block: the error is thrown again and the promise rejected
OuterCatchRethrows(p) ==
    /\ SetAvail(CountFailure(Avail))
    /\ lastUpdateText' = FailedText
    /\ pcS' = [pcS EXCEPT ![p] = "idle"]
    /\ kindS' = [kindS EXCEPT ![p] = "timer"]
    /\ bodyS' = [bodyS EXCEPT ![p] = NoBody]
    /\ pollLog' = Logged(pollLog, IF pcS[p] = "jsonBackend" THEN "parseFailure"
                                   ELSE "doubleFailure")
    /\ uncaught' = TRUE
    /\ UNCHANGED <<currentValues, textContent, animTimers, animateCall, timerQueue>>

\* a slip of the catch block: the last-update field is left as it was
OuterCatchKeepsText(p) ==
    /\ SetAvail(CountFailure(Avail))
    /\ pcS' = [pcS EXCEPT ![p] = "idle"]
    /\ kindS' = [kindS EXCEPT ![p] = "timer"]
    /\ bodyS' = [bodyS EXCEPT ![p] = NoBody]
    /\ pollLog' = Logged(pollLog, IF pcS[p] = "jsonBackend" THEN "parseFailure"
                                   ELSE "doubleFailure")
    /\ UNCHANGED <<currentValues, textContent, lastUpdateText, animTimers, animateCall, timerQueue,
                   uncaught>>

\* the catch (error) block of loadStats; the promise of the call is fulfilled
OuterCatch(p) ==
    /\ SetAvail(CountFailure(Avail))
    /\ lastUpdateText' = FailedText
    /\ pcS' = [pcS EXCEPT ![p] = "idle"]
    /\ kindS' = [kindS EXCEPT ![p] = "timer"]
    /\ bodyS' = [bodyS EXCEPT ![p] = NoBody]
    /\ pollLog' = Logged(pollLog, IF pcS[p] = "jsonBackend" THEN "parseFailure"
                                   ELSE "doubleFailure")
    /\ UNCHANGED <<currentValues, textContent, animTimers, animateCall, timerQueue, uncaught>>

\* fetch(BACKEND_URL) settles: an OK response that carries one of bodies, a
\* non-OK response or a network error
BackendFetchedFrom(p, bodies) ==
    /\ pcS[p] = "fetchBackend"
    /\ \E outcome \in {"ok", "notOk", "networkError"}, body \in bodies :
          /\ backendHealthy => (outcome = "ok" /\ body.kind = "object")
          /\ IF outcome = "ok"
             THEN /\ SetAvail(BackendAnswered(Avail))
                  /\ pcS' = [pcS EXCEPT ![p] = "jsonBackend"]
                  /\ bodyS' = [bodyS EXCEPT ![p] = body]
             ELSE \* catch (backendError): count, then fetch(FALLBACK_URL)
                  /\ SetAvail(CountFailure(Avail))
                  /\ pcS' = [pcS EXCEPT ![p] = "fetchFallback"]
                  /\ bodyS' = bodyS
    /\ UNCHANGED <<pageVars, histVars, valueVars, kindS, uncaught, pollLog, backendHealthy,
                   chartVars, debounceVars>>

\* the backend answers with any of the documents
BackendFetched(p) == BackendFetchedFrom(p, documents)

\* fetch(FALLBACK_URL) settles: a response of any status, or a network error
FallbackFetched(p) ==
    /\ pcS[p] = "fetchFallback"
    /\ \E outcome \in {"response", "networkError"}, body \in documents :
          IF outcome = "response"
          THEN /\ pcS' = [pcS EXCEPT ![p] = "jsonFallback"]
               /\ bodyS' = [bodyS EXCEPT ![p] = body]
               /\ UNCHANGED <<availVars, valueVars, kindS, uncaught, pollLog>>
          ELSE OuterCatch(p)
    /\ UNCHANGED <<pageVars, histVars, backendHealthy, chartVars, debounceVars>>

\* response.json() settles and the rest of loadStats runs
StatsParsed(p) ==
    /\ pcS[p] \in {"jsonBackend", "jsonFallback"}
    /\ IF bodyS[p].kind = "object"
       THEN LET new == ValuesOf(bodyS[p])
            IN  /\ animTimers' = AnimateAllTimers(animTimers, Elements, currentValues, new)
                /\ textContent' = AnimateAllText(textContent, currentValues, new)
                /\ animateCall' = animateCall
                /\ timerQueue' = timerQueue
                /\ currentValues' = new
                /\ lastUpdateText' = DateText(bodyS[p].last_update)
                /\ pcS' = [pcS EXCEPT ![p] = "idle"]
                /\ kindS' = [kindS EXCEPT ![p] = "timer"]
                /\ bodyS' = [bodyS EXCEPT ![p] = NoBody]
                /\ pollLog' = Logged(pollLog, IF pcS[p] = "jsonBackend" THEN "success"
                                               ELSE "failure")
                /\ UNCHANGED <<availVars, uncaught>>
       ELSE OuterCatch(p)
    /\ UNCHANGED <<pageVars, histVars, backendHealthy, chartVars, debounceVars>>

\* the environment: the backend recovers
BackendRecovers ==
    /\ ~backendHealthy
    /\ backendHealthy' = TRUE
    /\ UNCHANGED <<pageVars, histVars, availVars, valueVars, pcS, kindS, bodyS, uncaught,
                   pollLog, chartVars, debounceVars>>

\* the environment: the backend starts to fail again
BackendBreaks ==
    /\ backendHealthy
    /\ backendHealthy' = FALSE
    /\ UNCHANGED <<pageVars, histVars, availVars, valueVars, pcS, kindS, bodyS, uncaught,
                   pollLog, chartVars, debounceVars>>

(***************************************************************************)
(* loadHistory, the page initialisation and the history timer              *)
(***************************************************************************)
\* initCharts(): both charts are created from filterDataByPeriod
InitCharts(hd) ==
    \E serversData \in {filterDataByPeriod([cache |-> filteredDataCache,
                                             lastFilterTime |-> lastFilterTime],
                                            hd, currentPeriod.servers, now)} :
        \E botsData \in {filterDataByPeriod(serversData.state, hd, currentPeriod.bots, now)} :
            /\ serversChart' = [created |-> TRUE, labels |-> serversData.result.labels,
                                data |-> serversData.result.servers]
            /\ botsChart' = [created |-> TRUE, labels |-> botsData.result.labels,
                             data |-> botsData.result.bots]
            /\ filteredDataCache' = botsData.state.cache
            /\ lastFilterTime' = botsData.state.lastFilterTime

\* the DOMContentLoaded handler after await loadHistory(): initCharts(),
\* loadStats() and the two setInterval calls
AfterInitialLoad(hd) ==
    /\ InitCharts(hd)
    /\ CallLoadStats(CHOOSE p \in StatsPolls : pcS[p] = "idle", "initial")
    /\ phase' = "running"
    /\ historyDue' = now + PollInterval
    /\ UNCHANGED <<now, documents, omitted, store, currentPeriod, clicks, debounceVars, availVars, valueVars, bodyS,
                   uncaught, pollLog, backendHealthy>>

\* debouncedUpdateCharts() is called
debouncedUpdateCharts ==
    LET db == Debounced([updateTimeout |-> updateTimeout,
                         recomputePending |-> recomputePending], now)
    IN  /\ updateTimeout' = db.updateTimeout
        /\ recomputePending' = db.recomputePending
        /\ frameRequests' = frameRequests
        /\ debounceLog' = Append(debounceLog, [event |-> "call", at |-> now])

\* the history timer callback after await loadHistory()
AfterTimerLoad(h, hd) ==
    /\ IF Len(hd.timestamps) > oldLength[h]
       THEN debouncedUpdateCharts
       ELSE UNCHANGED debounceVars
    /\ UNCHANGED <<pageVars, statsVars, chartVars, historyDue>>

\* loadHistory() of call h has returned with the series hd
HistoryReturned(h, hd) ==
    /\ pcH' = [pcH EXCEPT ![h] = "idle"]
    /\ kindH' = [kindH EXCEPT ![h] = "timer"]
    /\ oldLength' = [oldLength EXCEPT ![h] = 0]
    /\ requestH' = [requestH EXCEPT ![h] = NoRequest]
    /\ IF kindH[h] = "initial" THEN AfterInitialLoad(hd) ELSE AfterTimerLoad(h, hd)

\* DOMContentLoaded: the handler runs up to await loadHistory()
DOMContentLoaded ==
    /\ phase = "loaded"
    /\ phase' = "initHistory"
    /\ pcH' = [pcH EXCEPT ![1] = "fetch"]
    /\ kindH' = [kindH EXCEPT ![1] = "initial"]
    /\ requestH' = [requestH EXCEPT ![1] = HistoryRequest(lastLoadedTimestamp)]
    /\ UNCHANGED <<now, documents, omitted, store, historyData, lastLoadedTimestamp, oldLength,
                   historyDue, statsVars, chartVars, debounceVars>>

\* the callback of the history setInterval up to await loadHistory():
\* oldLength is read and fetch(HISTORY_URL) is sent
HistoryCallback(h) ==
    /\ phase = "running"
    /\ pcH[h] = "idle"
    /\ \A g \in HistPolls : g < h => pcH[g] # "idle"
    /\ pcH' = [pcH EXCEPT ![h] = "fetch"]
    /\ kindH' = [kindH EXCEPT ![h] = "timer"]
    /\ oldLength' = [oldLength EXCEPT ![h] = Len(historyData.timestamps)]
    /\ requestH' = [requestH EXCEPT ![h] = HistoryRequest(lastLoadedTimestamp)]
    /\ UNCHANGED <<pageVars, historyData, lastLoadedTimestamp,
                   statsVars, chartVars, debounceVars>>

\* the history setInterval fires, at whatever time
HistoryTimer(h) == HistoryCallback(h) /\ UNCHANGED historyDue

\* the history setInterval fires when it is due, and is due again 5 s later
HistoryInterval(h) ==
    /\ now = historyDue
    /\ historyDue' = historyDue + PollInterval
    /\ HistoryCallback(h)

\* fetch(HISTORY_URL) settles: an OK response, a non-OK response or a network error
HistoryFetched(h) ==
    /\ pcH[h] = "fetch"
    /\ \E outcome \in {"ok", "notOk", "networkError"} :
          IF outcome = "ok"
          THEN /\ pcH' = [pcH EXCEPT ![h] = "json"]
               /\ UNCHANGED <<pageVars, kindH, oldLength, requestH, historyDue, statsVars,
                              chartVars, debounceVars>>
          ELSE HistoryReturned(h, historyData)
    /\ UNCHANGED <<historyData, lastLoadedTimestamp>>

\* response.json() settles with one of the bodies and the rest of loadHistory runs
HistoryParsedFrom(h, bodies) ==
    /\ pcH[h] = "json"
    /\ \E data \in bodies :
          /\ historyData' = MergedHistory(historyData, lastLoadedTimestamp, data)
          /\ lastLoadedTimestamp' = MergedCursor(historyData, lastLoadedTimestamp, data)
          /\ HistoryReturned(h, MergedHistory(historyData, lastLoadedTimestamp, data))

HistoryParsed(h) == HistoryParsedFrom(h, ServedBodies(omitted))

\* the backend has recorded n points, one every cadence seconds, the last of
\* them at second endS
Sampled(cadence, n, endS) == ObjectBody([i \in 1..n |-> endS - (n - i) * cadence], {})

\* the time between two recorded points, in seconds: 5 min, 1 h, 1 d, 30 d
Cadences == {5 * 60, 60 * 60, 24 * 60 * 60, 30 * 24 * 60 * 60}

\* the cadence the backend records at, in seconds
SamplingCadence == 5

\* Date.now() when a page that shows sampled histories is loaded: late enough
\* for the longest of them
FilterNow == (MaxPoints + 1) * 30 * 24 * 60 * 60 * OneSecond

\* enough points for two strides of the 1y window
DensePoints == decimationFactor("1y") + MaxPoints

\* the histories of MaxPoints points recorded up to the second the page is
\* loaded in
ShortBodies == {Sampled(c, MaxPoints, FilterNow \div OneSecond) : c \in Cadences}

\* the histories recorded up to the second the page is loaded in: MaxPoints
\* points at one of the cadences, or DensePoints points every 5 s
SampledBodies ==
    ShortBodies \cup {Sampled(SamplingCadence, DensePoints, FilterNow \div OneSecond)}

\* the backend answers with a sampled history
SampledParsed(h) == HistoryParsedFrom(h, SampledBodies)

(***************************************************************************)
(* The period buttons, updateChartData and the clock                       *)
(***************************************************************************)
\* arr[arr.length - 1], undefined for an empty array
LastOrUndefined(arr) == IF Len(arr) = 0 THEN Undefined ELSE arr[Len(arr)]

\* the chart after updateChartData has compared it with the filtered data:
\* it is replaced when the number of labels or the last value differs
UpdatedChart(ch, labels, data) ==
    LET currentLength == Len(ch.labels)
        shown == IF currentLength = 0 \/ currentLength > Len(ch.data) THEN Undefined
                 ELSE ch.data[currentLength]
    IN  IF currentLength # Len(labels) \/ shown # LastOrUndefined(data)
        THEN [ch EXCEPT !.labels = labels, !.data = data]
        ELSE ch

\* updateChartData(chartName, period)
updateChartData(chartName, period) ==
    \E filtered \in {filterDataByPeriod([cache |-> filteredDataCache,
                                          lastFilterTime |-> lastFilterTime],
                                         historyData, period, now)} :
        /\ filteredDataCache' = filtered.state.cache
        /\ lastFilterTime' = filtered.state.lastFilterTime
        /\ IF chartName = "servers" /\ serversChart.created
           THEN /\ serversChart' = UpdatedChart(serversChart, filtered.result.labels,
                                                filtered.result.servers)
                /\ botsChart' = botsChart
           ELSE IF chartName = "bots" /\ botsChart.created
           THEN /\ botsChart' = UpdatedChart(botsChart, filtered.result.labels,
                                             filtered.result.bots)
                /\ serversChart' = serversChart
           ELSE UNCHANGED <<serversChart, botsChart>>

\* a slip of the click handler: the thinned point set is stored as the series
PeriodClickWritesBack(chart, period) ==
    /\ phase = "running"
    /\ clicks' = clicks + 1
    /\ currentPeriod' = [currentPeriod EXCEPT ![chart] = period]
    /\ updateChartData(chart, period)
    /\ historyData' = IF filteredDataCache'[period].present
                      THEN [historyData EXCEPT
                              !.timestamps = filteredDataCache'[period].value.timestamps,
                              !.servers = filteredDataCache'[period].value.servers,
                              !.bots = filteredDataCache'[period].value.bots]
                      ELSE historyData
    /\ UNCHANGED <<pageVars, lastLoadedTimestamp, pcH, kindH, oldLength, requestH, historyDue,
                   statsVars, debounceVars>>

\* a click on the button of period in the button row of a chart; initCharts
\* has attached the handlers
PeriodClick(chart, period) ==
    /\ phase = "running"
    /\ clicks' = clicks + 1
    /\ currentPeriod' = [currentPeriod EXCEPT ![chart] = period]
    /\ updateChartData(chart, period)
    /\ UNCHANGED <<pageVars, histVars, statsVars, debounceVars>>

\* Date.now() advances by d while the charts are shown, up to horizon; a
\* pending timeout fires when it is due and the animation frame it requests
\* runs within 16 ms, before the clock of the model advances
ClockTick(d, horizon) ==
    /\ phase = "running"
    /\ now + d <= horizon
    /\ now + d <= historyDue
    /\ \A t \in recomputePending : now + d <= t.due
    /\ frameRequests = 0
    /\ now' = now + d
    /\ UNCHANGED <<phase, documents, omitted, store, histVars, statsVars, chartVars, debounceVars>>

\* animateValue(el, startValue, endValue) is called
AnimateCalled(el, startValue, endValue) ==
    /\ animTimers' = AnimateTimers(animTimers, el, startValue, endValue)
    /\ textContent' = AnimateText(textContent, el, startValue, endValue)
    /\ animateCall' = [el |-> el, startValue |-> startValue, endValue |-> endValue]
    /\ timerQueue' = QueueAfterCall(timerQueue, el, startValue, endValue)
    /\ UNCHANGED <<pageVars, histVars, availVars, currentValues, lastUpdateText, pcS, kindS,
                   bodyS, uncaught, pollLog, backendHealthy, chartVars, debounceVars>>

\* the interval callback of the timer t runs, 16 ms after the run before
AnimationTick(t) ==
    /\ t \in animTimers
    /\ TickDue(t, timerQueue, animTimers)
    /\ animTimers' = IF Reached(t.increment, t.current + t.increment, t.endValue)
                     THEN animTimers \ {t}
                     ELSE (animTimers \ {t}) \cup {Ticked(t)}
    /\ timerQueue' = IF Reached(t.increment, t.current + t.increment, t.endValue)
                     THEN SelectSeq(timerQueue, LAMBDA k : k # TimerKey(t))
                     ELSE timerQueue
    /\ textContent' = [textContent EXCEPT ![t.el] = Floor(Ticked(t).current)]
    /\ UNCHANGED <<animateCall, pageVars, histVars, availVars, currentValues, lastUpdateText, pcS, kindS,
                   bodyS, uncaught, pollLog, backendHealthy, chartVars, debounceVars>>

\* the elements in the order of the four animateValue calls of loadStats
ElementOrder == <<"servers-online", "bots-active", "bots-spawned", "bots-killed">>

\* the running timers in the order they were set, after the calls of
\* loadStats from the i-th on
RECURSIVE QueueAfterCalls(_, _, _, _)
QueueAfterCalls(queue, i, old, new) ==
    IF i > Len(ElementOrder) THEN queue
    ELSE QueueAfterCalls(
            QueueAfterCall(queue, ElementOrder[i], ValueOfElement(old, ElementOrder[i]),
                           ValueOfElement(new, ElementOrder[i])),
            i + 1, old, new)

\* loadStats from response.json() on, once the readable document data has
\* arrived: the four animateValue calls, the four assignments and the
\* last-update text
StatsApplied(data) ==
    /\ data.kind = "object"
    /\ animTimers' = AnimateAllTimers(animTimers, Elements, currentValues, ValuesOf(data))
    /\ textContent' = AnimateAllText(textContent, currentValues, ValuesOf(data))
    /\ timerQueue' = QueueAfterCalls(timerQueue, 1, currentValues, ValuesOf(data))
    /\ currentValues' = ValuesOf(data)
    /\ lastUpdateText' = DateText(data.last_update)
    /\ UNCHANGED <<animateCall, pageVars, histVars, availVars, pcS, kindS, bodyS, uncaught,
                   pollLog, backendHealthy, chartVars, debounceVars>>

\* the callback of the recompute timeout runs: it requests an animation frame
UpdateTimeoutFires ==
    /\ \E t \in recomputePending :
          /\ t.due <= now
          /\ recomputePending' = recomputePending \ {t}
    /\ frameRequests' = frameRequests + 1
    /\ UNCHANGED <<pageVars, histVars, statsVars, chartVars, updateTimeout, debounceLog>>

\* the callback of requestAnimationFrame runs: updateChartData('servers',
\* currentPeriod.servers), then updateChartData('bots', currentPeriod.bots)
AnimationFrame ==
    /\ frameRequests > 0
    /\ frameRequests' = frameRequests - 1
    /\ debounceLog' = Append(debounceLog, [event |-> "pass", at |-> now])
    /\ \E serversData \in {filterDataByPeriod([cache |-> filteredDataCache,
                                                lastFilterTime |-> lastFilterTime],
                                               historyData, currentPeriod.servers, now)} :
       \E botsData \in {filterDataByPeriod(serversData.state, historyData,
                                            currentPeriod.bots, now)} :
          /\ serversChart' = IF serversChart.created
                             THEN UpdatedChart(serversChart, serversData.result.labels,
                                               serversData.result.servers)
                             ELSE serversChart
          /\ botsChart' = IF botsChart.created
                          THEN UpdatedChart(botsChart, botsData.result.labels,
                                            botsData.result.bots)
                          ELSE botsChart
          /\ filteredDataCache' = botsData.state.cache
          /\ lastFilterTime' = botsData.state.lastFilterTime
    /\ UNCHANGED <<pageVars, histVars, statsVars, currentPeriod, clicks, updateTimeout,
                   recomputePending>>

RecomputeSteps == UpdateTimeoutFires \/ AnimationFrame

(***************************************************************************)
(* Specifications                                                          *)
(***************************************************************************)
HistorySteps == \E h \in HistPolls : HistoryFetched(h) \/ HistoryParsed(h)

StatsSteps ==
    \E p \in StatsPolls :
        StatsTimer(p) \/ BackendFetched(p) \/ FallbackFetched(p) \/ StatsParsed(p)

Environment == BackendRecovers \/ BackendBreaks

NextStats ==
    DOMContentLoaded \/ (\E h \in HistPolls : HistoryFetched(h)) \/ StatsSteps \/ Environment

NextHistory == DOMContentLoaded \/ HistorySteps \/ (\E h \in HistPolls : HistoryTimer(h))

\* the history timer fires while no loadHistory call is in flight
SequentialTimer == (\A h \in HistPolls : pcH[h] = "idle") /\ HistoryTimer(1)

NextSequential == DOMContentLoaded \/ HistorySteps \/ SequentialTimer

\* a page that shows a sampled history: the period buttons and the clock
Charts == {"servers", "bots"}

HalfSecond == OneSecond \div 2

\* one of the buttons of periods is clicked, limit clicks at most
ButtonStepsOf(periods, limit) ==
    /\ clicks < limit
    /\ \E chart \in Charts, period \in periods : PeriodClick(chart, period)

\* one of the period buttons is clicked, limit clicks at most
ButtonSteps(limit) == ButtonStepsOf(Periods, limit)

NextFilter ==
    \/ DOMContentLoaded
    \/ \E h \in HistPolls : HistoryFetched(h) \/ SampledParsed(h)
    \/ ButtonSteps(MaxClicks)
    \/ ClockTick(HalfSecond, FilterNow + MaxTicks * HalfSecond)

\* the same page where the backend answers with one of the shorter histories
NextCache ==
    \/ DOMContentLoaded
    \/ \E h \in HistPolls : HistoryFetched(h) \/ HistoryParsedFrom(h, ShortBodies)
    \/ ButtonSteps(MaxCacheClicks)
    \/ ClockTick(HalfSecond, FilterNow + MaxTicks * HalfSecond)

Next == DOMContentLoaded \/ HistorySteps \/ StatsSteps \/ Environment
           \/ (\E h \in HistPolls : HistoryTimer(h))
           \/ ButtonSteps(MaxClicks)
           \/ RecomputeSteps
           \/ ClockTick(HalfSecond, Now0 + MaxTicks * HalfSecond)

\* the whole page
Spec == Init /\ [][Next]_vars

\* the live-stats poll after the page initialisation
SpecStats == InitStats /\ [][NextStats]_vars

\* the history poll after the page initialisation
SpecHistory == Init /\ [][NextHistory]_vars

\* the charts of a page that has loaded a sampled history
InitFilter == InitPage /\ now = FilterNow /\ documents = StatsBodies /\ omitted = {}

SpecFilter == InitFilter /\ [][NextFilter]_vars

\* the cache of filterDataByPeriod over several clicks
SpecCache == InitFilter /\ [][NextCache]_vars

\* the backend records a point every 5 s: its history k timer periods after
\* the page was loaded
Recorded(k) ==
    Sampled(SamplingCadence, MaxPoints, FilterNow \div OneSecond + k * SamplingCadence)

\* the histories a response parsed at time t may carry: the one recorded by
\* then, or an older one when the response was produced earlier
RecordedBodies(t) == {Recorded(k) : k \in 0..((t - FilterNow) \div PollInterval)}

RecordedParsed(h) == HistoryParsedFrom(h, RecordedBodies(now))

\* the clock is followed in steps of 1/8 s for a while after each period of
\* the history timer and then advances to the next period
RecomputeHorizon == FilterNow + MaxHistPolls * PollInterval + MaxEighths

\* the buttons the visitor of this page uses: a window that keeps every point
\* and a window that thins the series
ClickedPeriods == {"30m", "1d"}

ClockSteps ==
    \/ /\ (now - FilterNow) % PollInterval < MaxEighths
       /\ ClockTick(OneSecond \div 8, RecomputeHorizon)
    \/ /\ now < historyDue
       /\ ClockTick(historyDue - now, RecomputeHorizon)

\* a page that polls the history every 5 s and recomputes its charts
NextRecompute ==
    \/ DOMContentLoaded
    \/ \E h \in HistPolls : HistoryFetched(h) \/ RecordedParsed(h) \/ HistoryInterval(h)
    \/ ButtonStepsOf(ClickedPeriods, MaxClicks)
    \/ RecomputeSteps
    \/ ClockSteps

SpecRecompute == InitFilter /\ [][NextRecompute]_vars

\* the calls of debouncedUpdateCharts logged so far
Calls(log) == SelectSeq(log, LAMBDA e : e.event = "call")

\* the recompute passes logged so far
Passes(log) == SelectSeq(log, LAMBDA e : e.event = "pass")

\* debouncedUpdateCharts is called at whatever time, MaxCalls times at most:
\* the callbacks of the history timer call it when their loadHistory has
\* returned with a longer series, each after the delay of its own response
DebounceCalled ==
    /\ phase = "running"
    /\ Len(historyData.timestamps) > 0
    /\ Len(Calls(debounceLog)) < MaxCalls
    /\ debouncedUpdateCharts
    /\ UNCHANGED <<pageVars, histVars, statsVars, chartVars>>

\* the debounce of the recomputation on a page that has loaded its history
NextDebounce ==
    \/ DOMContentLoaded
    \/ \E h \in HistPolls : HistoryFetched(h) \/ RecordedParsed(h)
    \/ DebounceCalled
    \/ ButtonStepsOf({"1d"}, MaxClicks)
    \/ RecomputeSteps
    \/ ClockTick(OneSecond \div 8, FilterNow + MaxEighths)

SpecDebounce == InitFilter /\ [][NextDebounce]_vars

\* the page with every handler that reads the series: the loadStats call of
\* the page initialisation, the period buttons, debouncedUpdateCharts and the
\* recompute pass, next to loadHistory
NextHandlers ==
    \/ NextDebounce
    \/ \E p \in StatsPolls : BackendFetched(p) \/ FallbackFetched(p) \/ StatsParsed(p)

SpecHandlers == InitFilter /\ [][NextHandlers]_vars

\* Ingest(snapshot) -> Ack
Ingest(node, timestamp, payload) ==
    /\ store' = Ingested(store, node, timestamp, payload)
    /\ UNCHANGED <<phase, now, documents, omitted, histVars, statsVars, chartVars, debounceVars>>

\* the global cadence fires, R_global + MaxSnapshotTs times at most
SampleGlobal ==
    /\ store.samples < R_global + MaxSnapshotTs
    /\ store' = SampledGlobal(store)
    /\ UNCHANGED <<phase, now, documents, omitted, histVars, statsVars, chartVars, debounceVars>>

\* the History Store on its own: one node reports and the global cadence
\* samples
NextBackend ==
    \/ \E timestamp \in SnapshotTimes, payload \in Payloads :
          Ingest("A", timestamp, payload)
    \/ SampleGlobal

SpecBackend == InitFilter /\ [][NextBackend]_vars

\* the Ingestion Service on its own
NextIngest ==
    \E node \in Nodes, timestamp \in SnapshotTimes, payload \in Payloads :
        Ingest(node, timestamp, payload)

SpecIngest == InitFilter /\ [][NextIngest]_vars

\* the document of the backend once its lifetime counters have reached k
Counted(k) == Snapshot(1, 1, k, k, k)

\* the environment: the lifetime counters of the backend grow and it serves
\* a new document; the documents it has served before stay around as the
\* static fallback snapshot of some earlier moment
BackendCounts ==
    /\ Cardinality(documents) < MaxCount
    /\ documents' = documents \cup {Counted(Cardinality(documents) + 1)}
    /\ UNCHANGED <<phase, now, omitted, store, histVars, statsVars, chartVars, debounceVars>>

\* the page in front of a backend whose lifetime counters only grow
InitCounters == InitPage /\ now = Now0 /\ documents = {Counted(1)} /\ omitted = {}

\* the live-stats poll where the backend answers with its current document,
\* the one with the latest last_update, and the fallback with the current or
\* an earlier one
NextCounters ==
    \/ DOMContentLoaded
    \/ \E h \in HistPolls : HistoryFetched(h)
    \/ \E p \in StatsPolls :
          \/ StatsTimer(p)
          \/ BackendFetchedFrom(p, {d \in documents :
                                       \A e \in documents : e.last_update <= d.last_update})
          \/ FallbackFetched(p)
          \/ StatsParsed(p)
    \/ BackendCounts

SpecCounters == InitCounters /\ [][NextCounters]_vars

\* the values animateValue is called with: small counts and a large one
AnimValues == 0..MaxAnimValue \cup {duration}

\* the elements whose animation is followed
AnimatedElements == {"servers-online", "bots-active"}

\* animateValue is called with any two values while no animation runs, and
\* the interval callbacks run
NextAnimate ==
    \/ /\ animTimers = {}
       /\ \E el \in AnimatedElements, startValue \in AnimValues, endValue \in AnimValues :
             AnimateCalled(el, startValue, endValue)
    \/ \E t \in animTimers : AnimationTick(t)

SpecAnimate == InitFilter /\ [][NextAnimate]_vars

\* documents that report v servers online and nothing else are applied
\* while the animation of at most one earlier document still runs, and the
\* interval callbacks run
NextOverlap ==
    \/ /\ Cardinality(animTimers) <= 1
       /\ \E v \in AnimValues : StatsApplied(Snapshot(v, 0, 0, 0, 1))
    \/ \E t \in animTimers : AnimationTick(t)

SpecOverlap == InitFilter /\ [][NextOverlap]_vars

\* the history poll where every request is answered before the next timer
\* tick: the body is merged in one step of HistoryParsed, so the series and
\* the cursor take the same values here as with overlapping polls
SpecSequential == Init /\ [][NextSequential]_vars

\* the requests of loadStats call p are answered
StatsAnswered(p) == BackendFetched(p) \/ FallbackFetched(p) \/ StatsParsed(p)

\* the live-stats poll under the scheduling of the browser: the page loads,
\* the initial history request and every stats request are answered, and the
\* stats timer keeps firing
SpecLive ==
    /\ InitOneDocument
    /\ [][NextStats]_vars
    /\ WF_vars(DOMContentLoaded)
    /\ WF_vars(\E h \in HistPolls : HistoryFetched(h))
    /\ WF_vars(\E p \in StatsPolls : StatsTimer(p))
    /\ \A p \in StatsPolls : WF_vars(StatsAnswered(p))

(***************************************************************************)
(* The availability state machine                                          *)
(***************************************************************************)
NoPollInFlight == \A p \in StatsPolls : pcS[p] = "idle"

ZeroValues == [servers |-> 0, bots |-> 0, spawned |-> 0, killed |-> 0]

\* C1: three polls run from the freshly loaded page (Available, no failure
\* recorded): the first fails at the backend and reads the fallback, the
\* second succeeds, the third fails like the first. The state is then still
\* Available and the banner hidden.
C1_FailureSuccessFailureStaysAvailable ==
    (pollLog = <<"failure", "success", "failure">> /\ NoPollInFlight)
        => (apiAvailable /\ bannerHidden)

\* C2: one single poll has run from the freshly loaded page and its backend
\* request failed, whatever became of the fallback fetch and of the parsing:
\* the state is still Available and the banner hidden.
C2_OneFailedPollStaysAvailable ==
    (Len(pollLog) = 1 /\ pollLog[1] \in {"failure", "doubleFailure"} /\ NoPollInFlight)
        => (apiAvailable /\ bannerHidden)

\* C3: in Degraded, the step of a poll in which its backend request is found
\* to have succeeded sets consecutiveFailures to zero, sets apiAvailable and
\* hides the banner, whatever the counter was.
C3_SuccessInDegradedRestores ==
    [][\A p \in StatsPolls :
          (~apiAvailable /\ pcS[p] = "fetchBackend" /\ pcS'[p] = "jsonBackend")
              => (consecutiveFailures' = 0 /\ apiAvailable' /\ bannerHidden')]_vars

\* a poll has just restored Available from Degraded: the counter is zero while
\* the last-update field still shows the failure text
C3_Witness ==
    /\ apiAvailable /\ bannerHidden /\ consecutiveFailures = 0
    /\ lastUpdateText = FailedText
    /\ \E p \in StatsPolls : pcS[p] = "jsonBackend"

\* C4: in every reachable state the banner is visible exactly when
\* apiAvailable is false.
C4_BannerMatchesState == (~bannerHidden) <=> (~apiAvailable)

\* Degraded with the banner shown while two polls are in flight
C4_Witness ==
    /\ ~apiAvailable /\ ~bannerHidden
    /\ \E p, q \in StatsPolls : p # q /\ pcS[p] # "idle" /\ pcS[q] # "idle"

\* C5: a history fetch that fails (network error or non-OK status) increments
\* consecutiveFailures as a failed stats fetch does, and the state is
\* Degraded with the banner shown once the counter has reached two.
C5_HistoryFailureCounted ==
    [][\A h \in HistPolls :
          (pcH[h] = "fetch" /\ pcH'[h] = "idle")
              => /\ consecutiveFailures' = CountUp(consecutiveFailures)
                 /\ (consecutiveFailures' >= FailureThreshold
                        => (~apiAvailable' /\ ~bannerHidden'))]_vars

\* C6: a poll whose backend request fails goes on to fetch the fallback, in
\* Available and in Degraded alike; when the fallback document is read its
\* values become the current values; no loadStats promise is ever rejected;
\* once the timers are set the page stays in the running phase.
C6_FallbackAbsorbsFailure ==
    /\ [](~uncaught)
    /\ [][/\ \A p \in StatsPolls :
               /\ (pcS[p] = "fetchBackend" /\ pcS'[p] \notin {"fetchBackend", "jsonBackend"})
                     => pcS'[p] = "fetchFallback"
               /\ (pcS[p] = "jsonFallback" /\ bodyS[p].kind = "object" /\ pcS'[p] = "idle")
                     => /\ currentValues'.servers = OrZero(bodyS[p].servers_online)
                        /\ currentValues'.bots = OrZero(bodyS[p].bots_active)
                        /\ currentValues'.spawned = OrZero(bodyS[p].bots_spawned_total)
                        /\ currentValues'.killed = OrZero(bodyS[p].bots_killed_total)
           /\ phase = "running" => phase' = "running"]_vars

\* a first poll failed at the backend and at the fallback, a second one failed
\* at the backend and applied the fallback values, and a third one is running
C6_Witness ==
    /\ pollLog = <<"doubleFailure", "failure">>
    /\ ~apiAvailable
    /\ currentValues # ZeroValues
    /\ \E p \in StatsPolls : pcS[p] = "fetchBackend"

\* C7: if from some point on the backend answers every request with an OK
\* status and a readable document, then from some point on the state is
\* Available and the banner hidden for ever.
C7_RecoveryIsPermanent ==
    (<>[]backendHealthy) => <>[](apiAvailable /\ bannerHidden)

\* the backend is healthy and a poll has just restored Available from Degraded
C7_Witness ==
    /\ backendHealthy
    /\ apiAvailable /\ bannerHidden /\ consecutiveFailures = 0
    /\ lastUpdateText = FailedText

(***************************************************************************)
(* The incremental merge                                                   *)
(***************************************************************************)
\* the indices of the body's points whose timestamp is greater than the
\* cursor, in the body's order
NewerIndices(data, cursor) ==
    SelectSeq([i \in 1..Len(data.timestamps) |-> i],
              LAMBDA i : data.timestamps[i] * OneSecond > cursor)

\* the values of one field at the newer points, an absent value read as 0
NewerValues(arr, idx) ==
    [k \in 1..Len(idx) |-> IF idx[k] <= Len(arr) THEN OrZero(arr[idx[k]]) ELSE 0]

\* the series hd followed by the body's points newer than the cursor
FollowedByNewer(hd, cursor, data) ==
    LET idx == NewerIndices(data, cursor)
    IN  [timestamps |-> hd.timestamps \o
                          [k \in 1..Len(idx) |-> data.timestamps[idx[k]] * OneSecond],
         servers    |-> hd.servers \o NewerValues(data.servers, idx),
         bots       |-> hd.bots \o NewerValues(data.bots, idx),
         spawned    |-> hd.spawned \o NewerValues(data.spawned, idx),
         killed     |-> hd.killed \o NewerValues(data.killed, idx)]

\* C8: with a non-empty series and cursor T, loadHistory given any body that
\* carries points leaves the series equal to the previous series followed by
\* exactly the body's points with timestamp greater than T, in the body's order.
C8_MergeAppendsNewerPoints ==
    Len(historyData.timestamps) > 0 =>
        \A data \in HistoryBodies :
            HasData(data) =>
                MergedHistory(historyData, lastLoadedTimestamp, data)
                    = FollowedByNewer(historyData, lastLoadedTimestamp, data)

\* the series is longer than any single response: an incremental merge has
\* added points to an earlier series
C8_Witness ==
    /\ Len(historyData.timestamps) > MaxRespLen
    /\ \A h \in HistPolls : pcH[h] = "idle"

\* C9: the series is strictly ascending in every reachable state.
C9_SeriesStrictlyAscending == StrictlyAscending(historyData.timestamps)

\* the series and the cursor after loadHistory has parsed the body data in the
\* state st = [hd, cursor]
Delivered(st, data) ==
    [hd     |-> MergedHistory(st.hd, st.cursor, data),
     cursor |-> MergedCursor(st.hd, st.cursor, data)]

\* C10: after a chronologically ordered body has been delivered, delivering
\* it again leaves the series and the cursor as they are.
C10_RedeliveryIsIdempotent ==
    LET st == [hd |-> historyData, cursor |-> lastLoadedTimestamp]
    IN  \A data \in HistoryBodies :
            Chronological(data.timestamps) =>
                LET first == Delivered(st, data)
                IN  Delivered(first, data) = first

\* a chronological body has been merged onto an earlier series by the
\* incremental branch: its points are the tail of the series and the cursor
\* stands at its last point
C10_Witness ==
    \E data \in HistoryBodies :
        /\ HasData(data) /\ Chronological(data.timestamps)
        /\ Len(historyData.timestamps) > Len(data.timestamps)
        /\ SubSeq(historyData.timestamps,
                  Len(historyData.timestamps) - Len(data.timestamps) + 1,
                  Len(historyData.timestamps)) = ToMillis(data.timestamps)
        /\ lastLoadedTimestamp = Last(ToMillis(data.timestamps))
        /\ lastLoadedTimestamp > historyData.timestamps[1]

\* C11: whenever the series is non-empty the cursor is the timestamp of its
\* last point, and no step makes the cursor smaller.
C11_CursorIsLastPointAndMonotone ==
    /\ [](Len(historyData.timestamps) > 0
            => lastLoadedTimestamp = Last(historyData.timestamps))
    /\ [][lastLoadedTimestamp' >= lastLoadedTimestamp]_vars

\* an incremental merge has moved the cursor past the last point of the
\* first load while the next request is already out
C11_Witness ==
    /\ Len(historyData.timestamps) >= 2
    /\ lastLoadedTimestamp = Last(historyData.timestamps)
    /\ \E i \in 1..(Len(historyData.timestamps) - 1) :
          historyData.timestamps[i] < lastLoadedTimestamp
    /\ \E h \in HistPolls : pcH[h] = "fetch" /\ kindH[h] = "timer" /\ oldLength[h] >= 2

\* C12: once the series holds points, every request the history timer sends
\* carries the cursor lastLoadedTimestamp as its since value.
C12_PollPassesCursorAsSince ==
    [][\A h \in HistPolls :
          (pcH[h] = "idle" /\ pcH'[h] = "fetch" /\ Len(historyData.timestamps) > 0)
              => requestH'[h].since = lastLoadedTimestamp]_vars

\* the body b is the body a followed by further points
Extends(b, a) ==
    /\ a.kind = "object" /\ b.kind = "object" /\ a.omit = b.omit
    /\ Len(a.timestamps) <= Len(b.timestamps)
    /\ SubSeq(b.timestamps, 1, Len(a.timestamps)) = a.timestamps

\* two loadHistory calls of the history timer wait for their bodies
TwoHistoryPollsInFlight ==
    \E h, g \in HistPolls :
        /\ h # g
        /\ pcH[h] = "json" /\ kindH[h] = "timer"
        /\ pcH[g] = "json" /\ kindH[g] = "timer"

\* C13: two history polls are in flight, the earlier-issued one is answered
\* with the body a and the later-issued one with a chronological extension b
\* of a. The series and the cursor end the same whether a or b is merged
\* first, and a merged after b adds nothing.
C13_CompletionOrderIsHarmless ==
    TwoHistoryPollsInFlight =>
        LET st == [hd |-> historyData, cursor |-> lastLoadedTimestamp]
        IN  \A b \in ServedBodies(omitted) :
                Chronological(b.timestamps) =>
                    \A a \in ServedBodies(omitted) :
                        Extends(b, a) =>
                            LET ab == Delivered(Delivered(st, a), b)
                                ba == Delivered(Delivered(st, b), a)
                            IN  ab = ba /\ ba = Delivered(st, b)

\* C14: the loadStats call of the page handler is still in flight while a
\* poll of the timer, issued after it, has displayed its snapshot. When the
\* earlier call then reads a snapshot older than the displayed one, the
\* current values and the last-update field stay those of the newer snapshot.
C14_LateStatsResponseIsHarmless ==
    [][\A p \in StatsPolls :
          (/\ kindS[p] = "initial"
           /\ pcS[p] \in {"jsonBackend", "jsonFallback"} /\ pcS'[p] = "idle"
           /\ bodyS[p].kind = "object"
           /\ lastUpdateText.text = "date"
           /\ OrZero(bodyS[p].last_update) < lastUpdateText.date)
              => (currentValues' = currentValues /\ lastUpdateText' = lastUpdateText)]_vars

(***************************************************************************)
(* Windowing and decimation                                                *)
(***************************************************************************)
\* the length of a window in seconds: 10 min, 30 min, 1 h, 24 h, 7 d, 30 d, 365 d
DurationSeconds(period) ==
    CASE period = "10m" -> 600
      [] period = "30m" -> 1800
      [] period = "1h"  -> 3600
      [] period = "1d"  -> 86400
      [] period = "1w"  -> 604800
      [] period = "1m"  -> 2592000
      [] period = "1y"  -> 31536000

\* the points of a filter result and of the series, each with its values
FilteredPoints(f) ==
    [k \in 1..Len(f.timestamps) |-> <<f.timestamps[k], f.servers[k], f.bots[k]>>]

SeriesPoints(hd) ==
    [i \in 1..Len(hd.timestamps) |->
        <<hd.timestamps[i], AtOrZero(hd.servers, i), AtOrZero(hd.bots, i)>>]

\* sub is what is left of full when the elements outside sub are struck out
IsSubsequence(sub, full) ==
    LET kept == {sub[k] : k \in 1..Len(sub)}
    IN  sub = SelectSeq(full, LAMBDA x : x \in kept)

\* the points of the series at or after the cutoff of a window at time t, in
\* the order of the series
Windowed(hd, period, t) ==
    SelectSeq(SeriesPoints(hd), LAMBDA pt : pt[1] >= t - DurationSeconds(period) * OneSecond)

\* this step has run the loop of filterDataByPeriod(period), at time now on
\* the series historyData', and has stored its result in the cache
Computes(period) == filteredDataCache'[period] # filteredDataCache[period]

\* C15: for every window W, what filterDataByPeriod(W) computes when it does
\* not use the cache holds no point with a timestamp below now - duration(W),
\* and its points are a subsequence of the series, in the order of the series
C15_FreshResultIsWindowedSubsequence ==
    [][\A period \in Periods :
          Computes(period) =>
              LET fresh == filteredDataCache'[period].value
              IN  /\ \A k \in 1..Len(fresh.timestamps) :
                        fresh.timestamps[k] >= now - DurationSeconds(period) * OneSecond
                  /\ IsSubsequence(FilteredPoints(fresh), SeriesPoints(historyData'))]_vars

\* a click has selected the 10m window for a chart, which now shows some of
\* the points of the series and not all of them, while the series also holds
\* a point exactly at the cutoff of the window
C15_Witness ==
    /\ clicks > 0
    /\ currentPeriod.servers = "10m"
    /\ filteredDataCache["10m"].present
    /\ serversChart.data = filteredDataCache["10m"].value.servers
    /\ Len(serversChart.data) > 0
    /\ Len(serversChart.data) < Len(historyData.timestamps)
    /\ \E i \in 1..Len(historyData.timestamps) :
          historyData.timestamps[i] = lastFilterTime - DurationSeconds("10m") * OneSecond

\* C16: for the windows 10m, 30m and 1h, what filterDataByPeriod computes
\* when it does not use the cache is every point of the series at or after
\* the cutoff: none is dropped
C16_ShortWindowsUndecimated ==
    [][\A period \in {"10m", "30m", "1h"} :
          Computes(period) =>
              FilteredPoints(filteredDataCache'[period].value)
                  = Windowed(historyData', period, now)]_vars

\* a click has selected the 30m window for the bots chart, which now shows
\* several points in a row of a longer series
C16_Witness ==
    /\ clicks > 0
    /\ currentPeriod.bots = "30m"
    /\ filteredDataCache["30m"].present
    /\ botsChart.data = filteredDataCache["30m"].value.bots
    /\ Len(botsChart.data) >= 3
    /\ Len(botsChart.data) < Len(historyData.timestamps)
    /\ LET windowed == Windowed(historyData, "30m", lastFilterTime)
       IN  botsChart.data = [k \in 1..Len(windowed) |-> windowed[k][3]]

\* the stride of a window: 1 up to the hour, then 6, 24, 120 and 720
Stride(period) ==
    CASE period = "1d" -> 6
      [] period = "1w" -> 24
      [] period = "1m" -> 120
      [] period = "1y" -> 720
      [] OTHER         -> 1

\* the least number of strides that cover k points: ceil(k / n)
CeilDiv(k, n) == (k + n - 1) \div n

\* C17: for a window with stride N, what filterDataByPeriod computes when it
\* does not use the cache is the points at positions 0, N, 2N, ... of the
\* windowed sequence, ceil(k / N) points for k points in the window
C17_KeepsEveryNthOfWindow ==
    [][\A period \in Periods :
          Computes(period) =>
              \A windowed \in {Windowed(historyData', period, now)} :
                  FilteredPoints(filteredDataCache'[period].value)
                      = [j \in 1..CeilDiv(Len(windowed), Stride(period)) |->
                            windowed[(j - 1) * Stride(period) + 1]]]_vars

\* a click has selected the 1d window for the servers chart, which now shows
\* three or more points that are six points apart in the series, and the
\* window holds a last stride that is not full
C17_Witness ==
    /\ clicks > 0
    /\ currentPeriod.servers = "1d"
    /\ filteredDataCache["1d"].present
    /\ serversChart.data = filteredDataCache["1d"].value.servers
    /\ Len(serversChart.data) >= 3
    /\ Len(Windowed(historyData, "1d", lastFilterTime)) % 6 # 0
    /\ Len(Windowed(historyData, "1d", lastFilterTime)) < Len(historyData.timestamps)

\* the windows from the shortest to the longest
PeriodsInOrder == <<"10m", "30m", "1h", "1d", "1w", "1m", "1y">>

\* C18: the stride is a function of the window alone, the same in every call
\* whatever the series and the time, it is 1 for 10m, 30m and 1h, and it does
\* not decrease from a window to the next longer one
C18_StrideFixedAndMonotone ==
    [][/\ \A i \in 1..3 : decimationFactor(PeriodsInOrder[i]) = 1
       /\ \A i \in 1..6 :
             decimationFactor(PeriodsInOrder[i]) <= decimationFactor(PeriodsInOrder[i + 1])
       /\ \A period \in Periods :
             Computes(period) =>
                 \A fresh \in {FilteredPoints(filteredDataCache'[period].value)},
                    windowed \in {Windowed(historyData', period, now)} :
                     \A k \in 1..(Len(fresh) - 1) :
                        fresh[k + 1] = windowed[k * decimationFactor(period) + 1]]_vars

\* a click has selected the 1y window for a chart of the history recorded
\* every 5 s, and the chart shows two points, 720 points apart in the series
C18_Witness ==
    /\ clicks > 0
    /\ currentPeriod.bots = "1y"
    /\ filteredDataCache["1y"].present
    /\ botsChart.data = filteredDataCache["1y"].value.bots
    /\ Len(botsChart.data) = 2
    /\ \E i \in 1..(Len(historyData.timestamps) - 720) :
          /\ botsChart.data[1] = historyData.bots[i]
          /\ botsChart.data[2] = historyData.bots[i + 720]

\* the series a page holds at time t when the backend has recorded one point
\* every 5 s over the whole of the window
FullWindowSeries(period, t) ==
    NewData(Sampled(SamplingCadence, DurationSeconds(period) \div SamplingCadence,
                    t \div OneSecond))

\* the points of the 1h window at one point every 5 s: 720
BudgetPoints == DurationSeconds("1h") \div SamplingCadence

\* C19: for every window, from the shortest to the longest, when the series
\* holds one point every 5 s over the whole window, filterDataByPeriod
\* returns no more points than the 720 of the undecimated 1h window
C19_WithinBudgetAtSamplingCadence ==
    \A i \in 1..Len(PeriodsInOrder) :
        Len(ComputeFiltered(FullWindowSeries(PeriodsInOrder[i], now),
                            PeriodsInOrder[i], now).timestamps) <= BudgetPoints

(***************************************************************************)
(* Repeated calls                                                          *)
(***************************************************************************)
\* this step has computed the point set of period anew, an earlier call has
\* computed it before, and the series is the same
ComputesAgain(period) ==
    /\ historyData' = historyData
    /\ filteredDataCache[period].present
    /\ Computes(period)

\* C20 as stated: with the series unchanged, a call of filterDataByPeriod
\* returns the point set the earlier call for the same window has returned,
\* whatever time has passed
C20_RepeatedCallsSameOutput ==
    [][\A period \in Periods :
          ComputesAgain(period) =>
              filteredDataCache'[period].value = filteredDataCache[period].value]_vars

\* C20 amended: with the series unchanged, two calls that compute the point
\* set of the same window return the same point set when the same points of
\* the series lie at or after the cutoff at both calls, whatever time has
\* passed between them
C20_SameWindowedPointsSameOutput ==
    [][\A period \in Periods :
          (/\ ComputesAgain(period)
           /\ Windowed(historyData, period, filteredDataCache[period].at)
                 = Windowed(historyData, period, now))
              => filteredDataCache'[period].value = filteredDataCache[period].value]_vars

\* the 1d window has been computed a second after the page was loaded, every
\* point of the series lies in it then as before, and both charts show the
\* same decimated points
C20_Witness ==
    /\ clicks = 2
    /\ currentPeriod.servers = "1d"
    /\ currentPeriod.bots = "1d"
    /\ filteredDataCache["1d"].present
    /\ filteredDataCache["1d"].at >= FilterNow + OneSecond
    /\ Len(Windowed(historyData, "1d", FilterNow)) = Len(historyData.timestamps)
    /\ Len(Windowed(historyData, "1d", now)) = Len(historyData.timestamps)
    /\ Len(serversChart.labels) > 1
    /\ Len(serversChart.labels) < Len(historyData.timestamps)
    /\ serversChart.labels = botsChart.labels
    /\ botsChart.data = filteredDataCache["1d"].value.bots

(***************************************************************************)
(* The cache of filterDataByPeriod                                         *)
(***************************************************************************)
\* this step is a click on a button of chart that selects another window
\* than the chart has shown, and the call of filterDataByPeriod made by the
\* click is answered from the cache
ClickServedFromCache(chart) ==
    /\ clicks' = clicks + 1
    /\ currentPeriod'[chart] # currentPeriod[chart]
    /\ CacheHit(filteredDataCache, lastFilterTime, currentPeriod'[chart], now)

\* C21: a call of filterDataByPeriod for a window is answered from the cache
\* only when the cached point set of that window has been computed less than
\* one second before the call, whatever other windows were computed since
C21_CachedOnlyWithinValidity ==
    [][\A chart \in Charts :
          ClickServedFromCache(chart) =>
              now - filteredDataCache[currentPeriod'[chart]].at < CacheValidMs]_vars

\* this step is the recompute pass of an animation frame
IsRecomputePass == frameRequests' = frameRequests - 1

\* the point set a call for period has returned in this step (the cache holds
\* it after the step) is the one the loop computes from the series as it is
\* at the call
ReturnedFromCurrentSeries(period) ==
    filteredDataCache'[period].value
        = ComputeFiltered(historyData, period, filteredDataCache'[period].at)

\* C22: once loadHistory has merged new points, a call of filterDataByPeriod
\* returns a point set computed from the series with the merged points, be
\* it a call of a click or one of the two calls of a recompute pass; it never
\* returns a set cached before the merge
C22_NoSetCachedBeforeMerge ==
    [][/\ \A chart \in Charts :
             ClickServedFromCache(chart) =>
                 ReturnedFromCurrentSeries(currentPeriod'[chart])
       /\ IsRecomputePass =>
             \A chart \in Charts : ReturnedFromCurrentSeries(currentPeriod[chart])]_vars

(***************************************************************************)
(* The debounce of the recomputation                                       *)
(***************************************************************************)
\* every call of the log but the first comes less than 250 ms after the one
\* before it
WithinDebounce(calls) ==
    \A i \in 2..Len(calls) : calls[i].at - calls[i - 1].at < DebounceMs

\* the chart shows as many points as the point set cached for its selected
\* window has, and the same last value
ShowsSelectedWindow(ch, period, field) ==
    /\ filteredDataCache'[period].present
    /\ Len(ch.labels) = Len(filteredDataCache'[period].value.labels)
    /\ LastOrUndefined(ch.data) = LastOrUndefined(filteredDataCache'[period].value[field])

\* C23: at no time is more than one recompute timeout pending; calls of
\* debouncedUpdateCharts that each come less than 250 ms after the one before
\* are followed by no pass while the timeout of the last of them is pending,
\* and by exactly one pass, 250 ms after the last call, once it has fired;
\* that pass leaves both charts on the point sets of the windows selected
\* when it runs
C23_OnePassAfterLastCall ==
    /\ [](/\ Cardinality(recomputePending) <= 1
          /\ LET calls  == Calls(debounceLog)
                 passes == Passes(debounceLog)
                 due    == calls[Len(calls)].at + DebounceMs
             IN  (Len(calls) > 0 /\ WithinDebounce(calls)) =>
                    \/ /\ passes = <<>>
                       /\ now <= due
                       /\ \/ /\ frameRequests = 0
                             /\ \E t \in recomputePending : t.due = due
                          \/ /\ frameRequests = 1
                             /\ recomputePending = {}
                             /\ now = due
                    \/ /\ Len(passes) = 1
                       /\ passes[1].at = due
                       /\ recomputePending = {}
                       /\ frameRequests = 0)
    /\ [][IsRecomputePass =>
             /\ ShowsSelectedWindow(serversChart', currentPeriod.servers, "servers")
             /\ ShowsSelectedWindow(botsChart', currentPeriod.bots, "bots")]_vars

\* three calls 125 ms apart have been followed by one pass, 250 ms after the
\* last of them, with the servers chart on the 1d window
C23_Witness ==
    /\ Len(Calls(debounceLog)) = MaxCalls
    /\ WithinDebounce(Calls(debounceLog))
    /\ Calls(debounceLog)[MaxCalls].at > Calls(debounceLog)[1].at
    /\ Len(Passes(debounceLog)) = 1
    /\ Passes(debounceLog)[1].at = Calls(debounceLog)[MaxCalls].at + DebounceMs
    /\ recomputePending = {}
    /\ frameRequests = 0
    /\ currentPeriod.servers = "1d"
    /\ currentPeriod.bots = "1h"
    /\ Len(serversChart.labels) < Len(botsChart.labels)

(***************************************************************************)
(* animateValue                                                            *)
(***************************************************************************)
\* C24: a call of animateValue with a start value equal to the end value
\* leaves the element showing the end value when it returns and starts no
\* timer
C24_EqualValuesNoTimer ==
    [][(/\ animateCall' # animateCall
        /\ animateCall'.startValue = animateCall'.endValue)
          => /\ textContent'[animateCall'.el] = animateCall'.endValue
             /\ animTimers' = animTimers]_vars

\* animateValue('servers-online', 500, 500) has returned: the element shows
\* 500, no timer runs
C24_Witness ==
    /\ animateCall = [el |-> "servers-online", startValue |-> duration, endValue |-> duration]
    /\ textContent["servers-online"] = duration
    /\ animTimers = {}

\* the number of ticks of 16 ms that cover the 500 ms: 32
TicksOfDuration == (duration + frameMs - 1) \div frameMs

\* v lies between a and b, whichever is the larger
Between(v, a, b) == (a <= v /\ v <= b) \/ (b <= v /\ v <= a)

\* the value on the straight line from startValue to endValue after k ticks
\* of 16 ms, rounded down
Linear(startValue, endValue, k) ==
    (startValue * duration + k * frameMs * (endValue - startValue)) \div duration

\* C25: a timer of animateValue never runs past its 32nd tick; each tick
\* shows the value of the straight line from start to end at that tick,
\* rounded down, or the end value with the last tick; every value shown lies
\* between start and end; the tick that shows the end value clears the
\* timer; for increases and for decreases
C25_LinearBoundedTerminates ==
    /\ [](\A t \in animTimers : t.ticks < TicksOfDuration)
    /\ [][\A t \in animTimers :
             t \notin animTimers' =>
                /\ Between(textContent'[t.el], t.startValue, t.endValue)
                /\ IF Ticked(t) \in animTimers'
                   THEN /\ textContent'[t.el] = Linear(t.startValue, t.endValue, t.ticks + 1)
                        /\ t.ticks + 1 < TicksOfDuration
                   ELSE /\ textContent'[t.el] = t.endValue
                        /\ t.ticks + 1 <= TicksOfDuration
                        /\ \A u \in animTimers' : u.el # t.el]_vars

\* the animation of servers-online from 0 to 500 has ended on 500, and the
\* one of bots-active from 500 down to 0 shows 4 after 31 ticks
C25_Witness ==
    /\ textContent["servers-online"] = duration
    /\ \E t \in animTimers :
          /\ t.el = "bots-active"
          /\ t.startValue = duration
          /\ t.endValue = 0
          /\ t.ticks = TicksOfDuration - 1
          /\ textContent["bots-active"] = duration - (TicksOfDuration - 1) * frameMs
    /\ \A t \in animTimers : t.el # "servers-online"

(***************************************************************************)
(* The writers of the series                                               *)
(***************************************************************************)
\* this step is the rest of a loadHistory call after response.json()
IsLoadHistoryStep == \E h \in HistPolls : pcH[h] = "json" /\ pcH'[h] = "idle"

\* C26: only a step of loadHistory changes historyData or the cursor, and it
\* leaves the series as the merge of a response body makes it; the clicks on
\* the period buttons, the calls of debouncedUpdateCharts, the recompute
\* passes with their filterDataByPeriod and updateChartData calls and the
\* steps of loadStats leave both as they are
C26_OnlyLoadHistoryWrites ==
    [][/\ (historyData' # historyData \/ lastLoadedTimestamp' # lastLoadedTimestamp)
             => IsLoadHistoryStep
       /\ IsLoadHistoryStep =>
             \E data \in RecordedBodies(now) :
                /\ historyData' = MergedHistory(historyData, lastLoadedTimestamp, data)
                /\ lastLoadedTimestamp' = MergedCursor(historyData, lastLoadedTimestamp, data)]_vars

\* the series is the history loaded with the page, after a click on a 1d
\* button has thinned it for the chart, a recompute pass has run and
\* loadStats has shown its values
C26_Witness ==
    /\ historyData = NewData(Recorded(0))
    /\ lastLoadedTimestamp = Last(historyData.timestamps)
    /\ clicks = 1
    /\ currentPeriod.servers = "1d"
    /\ filteredDataCache["1d"].present
    /\ Len(filteredDataCache["1d"].value.timestamps) < Len(historyData.timestamps)
    /\ Len(Passes(debounceLog)) = 1
    /\ currentValues.servers > 0
    /\ \A p \in StatsPolls : pcS[p] = "idle"

(***************************************************************************)
(* The backend: retention and idempotent ingestion                         *)
(***************************************************************************)
\* the last n elements of a sequence, all of them when it has fewer
LastPoints(s, n) == IF Len(s) > n THEN SubSeq(s, Len(s) - n + 1, Len(s)) ELSE s

SnapshotsAndCounters(st) == <<st.snapshots, st.spawned_total, st.terminated_total>>

\* C28: whatever the store holds, Ingest of a snapshot twice leaves the
\* Snapshot Store and the lifetime counters as Ingest of it once does; and no
\* Ingest, be it of a duplicate or of a snapshot older than the one stored,
\* lowers a lifetime counter
C28_IdempotentAndMonotonic ==
    /\ [](\A node \in Nodes, timestamp \in SnapshotTimes, payload \in Payloads :
             LET once == Ingested(store, node, timestamp, payload)
             IN  SnapshotsAndCounters(Ingested(once, node, timestamp, payload))
                    = SnapshotsAndCounters(once))
    /\ [][/\ store'.spawned_total >= store.spawned_total
          /\ store'.terminated_total >= store.terminated_total
          /\ store'.lastResult = "StaleDuplicate"
                => SnapshotsAndCounters(store') = SnapshotsAndCounters(store)]_vars

\* node A has reported a snapshot with timestamp 1 and then one with
\* timestamp 0, node B has reported, and the last Ingest was a duplicate: the
\* counters hold one increment for each of the three snapshots applied
C28_Witness ==
    /\ store.lastResult = "StaleDuplicate"
    /\ Cardinality(store.applied) = 3
    /\ Len(store.appended["A"]) = 2
    /\ store.snapshots["A"].timestamp = MaxSnapshotTs
    /\ store.appended["A"][2].timestamp = MaxSnapshotTs
    /\ <<"A", 0>> \in store.applied
    /\ store.snapshots["B"].timestamp # Undefined
    /\ store.spawned_total + store.terminated_total = 3
    /\ store.spawned_total > 0
    /\ store.terminated_total > 0

(***************************************************************************)
(* The recompute pass after a merge                                        *)
(***************************************************************************)
\* after this step the chart shows the point set the loop computes for
\* period from the series as it is now
ShowsCurrentSeries(ch, period, field) ==
    \E fresh \in {ComputeFiltered(historyData, period, now)} :
        /\ ch.labels = fresh.labels
        /\ ch.data = fresh[field]

\* C29: the recompute pass that follows a merge leaves both charts showing
\* the point sets computed from the series with the merged points, each for
\* its selected window, also when the two windows differ
C29_PassShowsMergedPoints ==
    [][IsRecomputePass =>
          /\ ShowsCurrentSeries(serversChart', currentPeriod.servers, "servers")
          /\ ShowsCurrentSeries(botsChart', currentPeriod.bots, "bots")]_vars

(***************************************************************************)
(* updateChartData                                                         *)
(***************************************************************************)
\* the chart of the given name, after this step
ChartAfter(chart) == IF chart = "servers" THEN serversChart' ELSE botsChart'

\* C30: after updateChartData the chart shows the point set that
\* filterDataByPeriod has returned, label for label and value for value: the
\* update is skipped only when the chart shows that very set already
C30_ChartShowsReturnedSet ==
    [][\A chart \in Charts :
          (clicks' = clicks + 1 /\ currentPeriod'[chart] # currentPeriod[chart]) =>
              /\ ChartAfter(chart).labels
                    = filteredDataCache'[currentPeriod'[chart]].value.labels
              /\ ChartAfter(chart).data
                    = filteredDataCache'[currentPeriod'[chart]].value[chart]]_vars

(***************************************************************************)
(* The availability state under overlapping polls                          *)
(***************************************************************************)
\* C32: in every reachable state, whatever the interleaving of the loadStats
\* calls in flight, apiAvailable is true exactly when consecutiveFailures is
\* at most 1 (below the threshold of 2)
C32_DegradedIffTwoFailures ==
    apiAvailable <=> (consecutiveFailures <= FailureThreshold - 1)

\* two loadStats calls are in flight, one waiting for the backend and one
\* for the fallback, on a page that is Degraded after three counted failures
C32_Witness ==
    /\ pcS[1] = "fetchFallback"
    /\ pcS[2] = "fetchBackend"
    /\ ~apiAvailable
    /\ consecutiveFailures = FailureThreshold + 1

(***************************************************************************)
(* A poll whose two requests fail                                          *)
(***************************************************************************)
\* this step ends the loadStats call p whose backend request has failed and
\* whose fallback request fails too: fetch(FALLBACK_URL) is rejected, or the
\* body of its response cannot be read
BothRequestsFail(p) ==
    /\ pcS'[p] = "idle"
    /\ \/ pcS[p] = "fetchFallback"
       \/ pcS[p] = "jsonFallback" /\ bodyS[p].kind # "object"

\* C36: when the backend request and the fallback request of one loadStats
\* call fail, currentValues is left unchanged, no animation is started (no
\* timer, no text of a counter element written) and the last-update field
\* shows 'Failed to load'
C36_DoubleFailureKeepsValues ==
    [][\A p \in StatsPolls :
          BothRequestsFail(p) =>
             /\ currentValues' = currentValues
             /\ animTimers' = animTimers
             /\ textContent' = textContent
             /\ lastUpdateText' = FailedText]_vars

\* a poll has displayed a snapshot, the next one has failed at the backend
\* and at the fallback: the values of the snapshot are still stored, the
\* last-update field shows the failure text
C36_Witness ==
    /\ pollLog = <<"success", "doubleFailure">>
    /\ currentValues = ValuesOf(Snapshot(1, 2, 3, 1, 1))
    /\ lastUpdateText = FailedText
    /\ NoPollInFlight

(***************************************************************************)
(* The five parallel arrays                                                *)
(***************************************************************************)
\* the lengths of the five arrays of a series
ArrayLengths(hd) ==
    {Len(hd.timestamps), Len(hd.servers), Len(hd.bots), Len(hd.spawned), Len(hd.killed)}

\* C33: in every reachable state the five arrays of historyData (timestamps,
\* servers, bots, spawned, killed) have the same length, also after
\* responses that leave out a value array
C33_ParallelArraysSameLength == Cardinality(ArrayLengths(historyData)) = 1

(***************************************************************************)
(* A loadHistory call that fails or receives no points                     *)
(***************************************************************************)
\* this step ends the loadHistory call h with the return value false: the
\* fetch has failed or was answered with a non-OK status, or the body is
\* unreadable or carries no points
ReturnsFalse(h) ==
    /\ pcH'[h] = "idle"
    /\ \/ pcH[h] = "fetch"
       \/ /\ pcH[h] = "json"
          /\ \E data \in ServedBodies(omitted) :
                /\ ~HasData(data)
                /\ historyData' = MergedHistory(historyData, lastLoadedTimestamp, data)
                /\ lastLoadedTimestamp' = MergedCursor(historyData, lastLoadedTimestamp, data)

\* C35: a loadHistory call that fails or receives a response with no points
\* leaves the series and the cursor unchanged, and when it was made by the
\* history poll timer the callback schedules no chart recomputation
C35_FailedLoadChangesNothing ==
    [][\A h \in HistPolls :
          ReturnsFalse(h) =>
             /\ historyData' = historyData
             /\ lastLoadedTimestamp' = lastLoadedTimestamp
             /\ (kindH[h] = "timer" => UNCHANGED debounceVars)]_vars

\* the series and the cursor alone: such a call leaves both unchanged
FailedLoadKeepsSeries ==
    [][\A h \in HistPolls :
          ReturnsFalse(h) =>
             /\ historyData' = historyData
             /\ lastLoadedTimestamp' = lastLoadedTimestamp]_vars

(***************************************************************************)
(* The lifetime counters on display                                        *)
(***************************************************************************)
\* C31: the lifetime counters the page stores for display (spawned, killed)
\* never decrease from one applied poll result to the next, also when a
\* poll reads the fallback document and when responses complete out of order
C31_DisplayedCountersNeverDecrease ==
    [][/\ currentValues'.spawned >= currentValues.spawned
       /\ currentValues'.killed >= currentValues.killed]_vars

(***************************************************************************)
(* Overlapping animations of one element                                   *)
(***************************************************************************)
\* C34: loadStats calls animateValue for an element with the value it
\* stores in currentValues as the end value (lines 166-174), also while the
\* timer of an earlier call for the element still runs; once no animation
\* timer runs, every element shows the end value of the most recent call,
\* the value in currentValues, however the ticks of the timers interleave
C34_LastCallWins ==
    animTimers = {} =>
        \A el \in Elements : textContent[el] = ValueOfElement(currentValues, el)

\* the animation from 0 to 500 was still running when 0 was reported again:
\* the timer from 500 down to 0 has run 31 times and the element shows 500,
\* written by the last tick of the earlier timer after the 31st tick of the
\* later one
C34_Witness ==
    /\ currentValues.servers = 0
    /\ textContent["servers-online"] = duration
    /\ \E t \in animTimers :
          /\ animTimers = {t}
          /\ TimerKey(t) = [el |-> "servers-online", startValue |-> duration, endValue |-> 0]
          /\ t.ticks = TicksOfDuration - 1
====
